---- MODULE Spec2Model ----
(***************************************************************************)
(* The FPGA server (drv/fpga-server) driving an ECP5 through the           *)
(* drv/fpga-devices ECP5 driver: the session lock, the channel protocol    *)
(* (lock / opcode / data / release), the pin-derived device state and the  *)
(* three-phase bitstream load.  The server is single threaded: every       *)
(* request is handled to completion before the next one is received, and   *)
(* the only places where it waits are the two polling loops of             *)
(* finish_bitstream_load.                                                  *)
(***************************************************************************)
EXTENDS Integers, Sequences, FiniteSets, TLC

(***************************************************************************)
(* Bounds of the model.                                                    *)
(***************************************************************************)
MaxBytes == 2        \* cap on the loader's running byte count
MaxPolls == 1        \* polls of one wait loop whose events are logged
MaxFaults == 1       \* transport calls that fail in one run with faults

Clients == {1, 2}    \* the client tasks
NoTask == 0          \* Option<TaskId>::None

(***************************************************************************)
(* Command opcodes (drv/fpga-devices/src/ecp5.rs, enum Command).           *)
(***************************************************************************)
Noop == 255           \* what an idle channel carries
ReadId == 224
ReadStatus == 60
EnableConfigurationMode == 198
DisableConfigurationMode == 38
BitstreamBurst == 122

APPLICATION_RESET_DURATION == 25
BUSY_DURATION == 10
DONE_DURATION == 10

(***************************************************************************)
(* FpgaError and the results a handler hands back.  "Panic" is the         *)
(* programming-error signal: the server task aborts.                       *)
(***************************************************************************)
Ok == [tag |-> "Ok", code |-> 0]
ImplError(c) == [tag |-> "ImplError", code |-> c]
BitstreamErrorOf(c) == [tag |-> "BitstreamError", code |-> c]
InvalidState == [tag |-> "InvalidState", code |-> 0]
InvalidValue == [tag |-> "InvalidValue", code |-> 0]
NotLocked == [tag |-> "NotLocked", code |-> 0]
PortDisabled == [tag |-> "PortDisabled", code |-> 0]
Panic == [tag |-> "Panic", code |-> 0]
Pending == [tag |-> "Pending", code |-> 0]

(***************************************************************************)
(* DeviceState (drv/fpga-api), by its u8 representation.                   *)
(***************************************************************************)
DS_Unknown == 0
DS_Disabled == 1
DS_AwaitingBitstream == 2
DS_RunningApplication == 3
DS_Error == 4

(***************************************************************************)
(* 32-bit words.  The device returns four bytes, most significant first;   *)
(* u32::from_be turns them into a value, kept here as two 16-bit halves.   *)
(***************************************************************************)
U32FromBe(b) == [hi |-> b[1] * 256 + b[2], lo |-> b[3] * 256 + b[4]]

Bit(v, i) == IF i < 16 THEN (v.lo \div (2 ^ i)) % 2 = 1
                       ELSE (v.hi \div (2 ^ (i - 16))) % 2 = 1

\* bitfield! Status(u32): the fields the driver looks at.
StatusDone(v) == Bit(v, 8)
StatusWriteEnabled(v) == Bit(v, 10)
StatusBusy(v) == Bit(v, 12)
\* bse_error_code taken one bit lower, from bits 22 to 24.
bse_error_code_low(v) == (v.hi \div 64) % 8

BseErrorCode(v) == (v.hi \div 128) % 8

\* Status::bitstream_error: BitstreamError::from_u32(..).unwrap_or(None)
bitstream_error(v) == IF BseErrorCode(v) \in 0..7 THEN BseErrorCode(v) ELSE 0

(***************************************************************************)
(* Words the device may answer a read with.                                *)
(***************************************************************************)
SW_None == <<0, 0, 0, 0>>             \* no bit set
SW_WriteEnabled == <<0, 0, 4, 0>>     \* bit 10
SW_Busy == <<0, 0, 20, 0>>            \* bits 10 and 12
SW_CrcMismatch == <<1, 128, 4, 0>>    \* bit 10, bitstream error 3
SW_Done == <<0, 0, 1, 0>>             \* bit 8
SW_Ones == <<255, 255, 255, 255>>     \* what a disabled port reads as

StartReads == {SW_None, SW_WriteEnabled}
BusyReads == {SW_Busy, SW_WriteEnabled}
ClimbOutReads == {SW_WriteEnabled, SW_CrcMismatch}
DoneReads == {SW_None, SW_Done, SW_Ones}

IdReads ==
    { <<65, 17, 32, 67>>,       \* 0x41112043, LFE5U-45
      <<255, 255, 255, 255>> }

\* enum Id: the IDCODE values the driver knows (Invalid = 0 is one of them).
KnownIds ==
    { [hi |-> 0, lo |-> 0],
      [hi |-> 8465, lo |-> 4163], [hi |-> 16657, lo |-> 4163],
      [hi |-> 16657, lo |-> 8259], [hi |-> 16657, lo |-> 12355],
      [hi |-> 273, lo |-> 4163], [hi |-> 273, lo |-> 8259],
      [hi |-> 273, lo |-> 12355], [hi |-> 33041, lo |-> 4163],
      [hi |-> 33041, lo |-> 8259], [hi |-> 33041, lo |-> 12355] }


(***************************************************************************)
(* State.                                                                  *)
(***************************************************************************)
VARIABLES
    lock_holder,          \* ServerImpl.lock_holder: NoTask or a client
    bitstream_loader,     \* ServerImpl.bitstream_loader
    pc,                   \* where the server is: "recv", a wait of finish, "panicked"
    polls,                \* iterations of the current wait loop, up to MaxPolls
    alive,                \* the client tasks that have not terminated
    chan_locked,          \* the configuration channel's lock is held
    chan_opcode,          \* the last opcode written to the channel
    application_reset_n,  \* the application reset pin, as last driven
    burst_open,           \* history: a start succeeded and finish has not released the channel
    reclaimed,            \* history: clients whose session lock was force-cleared
    faults,               \* environment: transport calls that may still fail
    last,                 \* history: the request handled last and what it did
    debug                 \* the fpga-debug task: where it is, its bitstream field

vars == << lock_holder, bitstream_loader, pc, polls, alive, chan_locked,
           chan_opcode, application_reset_n, burst_open, reclaimed, faults,
           last, debug >>

(***************************************************************************)
(* enum BitstreamLoader and the decompressor it carries.                   *)
(***************************************************************************)
DecompressorDefault == [mode |-> "Idle", rem |-> 0, byte |-> 0]
LoaderNone == [kind |-> "None", len |-> 0, dec |-> DecompressorDefault]
UncompressedLoadInprogress(n) ==
    [kind |-> "Uncompressed", len |-> n, dec |-> DecompressorDefault]
CompressedLoadInProgress(d, n) == [kind |-> "Compressed", len |-> n, dec |-> d]

InProgress(l) == l.kind \in {"Uncompressed", "Compressed"}

(***************************************************************************)
(* The Ecp5Impl capability.  A driver function is the sequence of calls it *)
(* makes on the capability, given the values the device answers with, and  *)
(* the result it returns when every call succeeds.  Each call returns a    *)
(* Result and is followed by ?, so a run in which the f-th call fails      *)
(* makes the calls before it, then that one, and returns its error.        *)
(***************************************************************************)
B2N(b) == IF b THEN 1 ELSE 0

Ev(k, a, d) == [k |-> k, a |-> a, d |-> d, ok |-> TRUE]

impl_lock == Ev("lock", 0, <<>>)
impl_release == Ev("release", 0, <<>>)
impl_write_command(c) == Ev("cmd", c, <<>>)
impl_read(bytes) == Ev("read", 0, bytes)
impl_write(buf) == Ev("write", Len(buf), buf)
impl_set_program_n(asserted) == Ev("set_program_n", B2N(asserted), <<>>)
impl_set_application_reset_n(asserted) ==
    Ev("set_application_reset_n", B2N(asserted), <<>>)
impl_program_n(v) == Ev("program_n", B2N(v), <<>>)
impl_init_n(v) == Ev("init_n", B2N(v), <<>>)
impl_done(v) == Ev("done", B2N(v), <<>>)
sleep_for(ticks) == Ev("sleep", ticks, <<>>)      \* hl::sleep_for: cannot fail

Call(e) == [calls |-> <<e>>, res |-> Ok]
Return(res) == [calls |-> <<>>, res |-> res]
Then(p, q) == IF p.res = Ok
              THEN [calls |-> p.calls \o q.calls, res |-> q.res]
              ELSE p

\* The calls of p that can fail, by position; 0 stands for none failing.
FailPoints(p) ==
    {0} \cup IF faults > 0 THEN {i \in 1..Len(p.calls) : p.calls[i].k # "sleep"}
              ELSE {}

\* p run with its f-th call failing with transport code c; f = 0: none fails.
Run(p, f, c) ==
    IF f = 0 THEN [ev |-> p.calls, res |-> p.res]
    ELSE [ev |-> Append(SubSeq(p.calls, 1, f - 1),
                        [p.calls[f] EXCEPT !.ok = FALSE]),
          res |-> ImplError(c)]

\* What a run leaves behind on the channel and the pins.
RECURSIVE LockedAfter(_, _)
LockedAfter(ev, before) ==
    IF ev = <<>> THEN before
    ELSE LET e == ev[Len(ev)]
         IN  IF e.ok /\ e.k = "lock" THEN TRUE
             ELSE IF e.ok /\ e.k = "release" THEN FALSE
             ELSE LockedAfter(SubSeq(ev, 1, Len(ev) - 1), before)

RECURSIVE OpcodeAfter(_, _)
OpcodeAfter(ev, before) ==
    IF ev = <<>> THEN before
    ELSE LET e == ev[Len(ev)]
         IN  IF e.ok /\ e.k = "cmd" THEN e.a
             ELSE OpcodeAfter(SubSeq(ev, 1, Len(ev) - 1), before)

RECURSIVE ApplicationResetAfter(_, _)
ApplicationResetAfter(ev, before) ==
    IF ev = <<>> THEN before
    ELSE LET e == ev[Len(ev)]
         IN  IF e.ok /\ e.k = "set_application_reset_n" THEN e.a = 1
             ELSE ApplicationResetAfter(SubSeq(ev, 1, Len(ev) - 1), before)

(***************************************************************************)
(* Ecp5: the command protocol.                                             *)
(***************************************************************************)
\* send_command that leaves the channel locked.
send_command_unreleased(c) ==
    Then(Call(impl_lock), Call(impl_write_command(c)))

send_command(c) ==
    Then(Call(impl_lock), Then(Call(impl_write_command(c)), Call(impl_release)))

read(c, bytes) ==
    Then(Call(impl_lock),
    Then(Call(impl_write_command(c)),
    Then(Call(impl_read(bytes)), Call(impl_release))))

\* read32 returns u32::from_be of the bytes read; status() wraps it in Status.
read32(c, bytes) == read(c, bytes)
status(bytes) == read32(ReadStatus, bytes)

enable_configuration_mode == send_command(EnableConfigurationMode)
disable_configuration_mode == send_command(DisableConfigurationMode)

\* await_not_busy that gives up after one poll.
await_not_busy_once(s) == [p |-> status(s), again |-> FALSE]

\* One iteration of await_not_busy; TRUE in "again" when the loop goes on.
await_not_busy(s) ==
    [p |-> IF StatusBusy(U32FromBe(s))
           THEN Then(status(s), Call(sleep_for(BUSY_DURATION)))
           ELSE status(s),
     again |-> StatusBusy(U32FromBe(s))]

\* One iteration of await_done.
await_done(s) ==
    [p |-> IF ~StatusDone(U32FromBe(s))
           THEN Then(status(s), Call(sleep_for(DONE_DURATION)))
           ELSE status(s),
     again |-> ~StatusDone(U32FromBe(s))]

(***************************************************************************)
(* Fpga for Ecp5.                                                          *)
(***************************************************************************)
set_application_enabled(enabled) == Call(impl_set_application_reset_n(enabled))

set_device_enabled(enabled) == Call(impl_set_program_n(enabled))

\* device_state with init_n looked at before done.
device_state_init_first(p, i, d) ==
    IF ~p THEN DS_Disabled
    ELSE IF ~i THEN DS_Error
    ELSE IF d THEN DS_RunningApplication
    ELSE DS_AwaitingBitstream

\* device_state that asks the device's status register before the pins.
device_state_by_status(p, i, d) ==
    Then(status(SW_None),
    Then(Call(impl_program_n(p)),
         IF ~p THEN Return(Ok)
         ELSE Then(Call(impl_done(d)),
                   IF d THEN Return(Ok) ELSE Call(impl_init_n(i)))))

\* device_state: the pins are read in this order, each only if needed.
device_state_of(p, i, d) ==
    IF ~p THEN DS_Disabled
    ELSE IF d THEN DS_RunningApplication
    ELSE IF i THEN DS_AwaitingBitstream
    ELSE DS_Error

device_state(p, i, d) ==
    Then(Call(impl_program_n(p)),
         IF ~p THEN Return(Ok)
         ELSE Then(Call(impl_done(d)),
                   IF d THEN Return(Ok) ELSE Call(impl_init_n(i))))

device_id(bytes) ==
    Then(read32(ReadId, bytes),
         IF U32FromBe(bytes) \in KnownIds THEN Return(Ok)
         ELSE Return(InvalidValue))

\* start_bitstream_load that asserts the design reset before the mode check.
start_bitstream_load_reset_first(s1, s2) ==
    Then(set_application_enabled(FALSE),
    Then(status(s1),
    Then(IF ~StatusWriteEnabled(U32FromBe(s1))
         THEN Then(enable_configuration_mode,
              Then(status(s2),
                   IF ~StatusWriteEnabled(U32FromBe(s2))
                   THEN Return(InvalidState)
                   ELSE Return(Ok)))
         ELSE Return(Ok),
    Then(Call(impl_lock), Call(impl_write_command(BitstreamBurst))))))

\* start_bitstream_load that puts the design in reset once the burst is open.
start_bitstream_load_reset_last(s1, s2) ==
    Then(status(s1),
    Then(IF ~StatusWriteEnabled(U32FromBe(s1))
         THEN Then(enable_configuration_mode,
              Then(status(s2),
                   IF ~StatusWriteEnabled(U32FromBe(s2))
                   THEN Return(InvalidState)
                   ELSE Return(Ok)))
         ELSE Return(Ok),
    Then(Call(impl_lock),
    Then(Call(impl_write_command(BitstreamBurst)),
         set_application_enabled(FALSE)))))

start_bitstream_load(s1, s2) ==
    Then(status(s1),
    Then(IF ~StatusWriteEnabled(U32FromBe(s1))
         THEN Then(enable_configuration_mode,
              Then(status(s2),
                   IF ~StatusWriteEnabled(U32FromBe(s2))
                   THEN Return(InvalidState)
                   ELSE Return(Ok)))
         ELSE Return(Ok),
    Then(set_application_enabled(FALSE),
    Then(Call(impl_lock), Call(impl_write_command(BitstreamBurst))))))

continue_bitstream_load(buf) == Call(impl_write(buf))

\* The climb-out with the error looked at after leaving configuration mode.
climb_out_check_late(s) ==
    Then(status(s),
    Then(disable_configuration_mode,
         IF bitstream_error(U32FromBe(s)) # 0
         THEN Return(BitstreamErrorOf(bitstream_error(U32FromBe(s))))
         ELSE Return(Ok)))

\* The climb-out writing DisableConfigurationMode without lock and release.
climb_out_bare(s) ==
    Then(status(s),
         IF bitstream_error(U32FromBe(s)) # 0
         THEN Return(BitstreamErrorOf(bitstream_error(U32FromBe(s))))
         ELSE Call(impl_write_command(DisableConfigurationMode)))

\* finish_bitstream_load, between its two waits: the climb-out checklist.
climb_out(s) ==
    Then(status(s),
         IF bitstream_error(U32FromBe(s)) # 0
         THEN Return(BitstreamErrorOf(bitstream_error(U32FromBe(s))))
         ELSE disable_configuration_mode)

\* finish_bitstream_load, after done was seen.
wake_up(ticks) == Then(Call(sleep_for(ticks)), set_application_enabled(TRUE))


(***************************************************************************)
(* gnarle: the run-length decompressor.  A control byte below 128 starts   *)
(* a literal of that many bytes plus one; any other control byte starts a  *)
(* run of (control - 127) copies of the byte that follows.  decompress     *)
(* stops when the input is used up or the output buffer is full.           *)
(***************************************************************************)
DECOMPRESS_BUFFER_LEN == 1024

Min(a, b) == IF a < b THEN a ELSE b

\* The decompressor after n bytes of its run or literal went out.
Emit(dec, n) == IF dec.rem = n THEN DecompressorDefault
                ELSE [dec EXCEPT !.rem = @ - n]

RECURSIVE decompress_from(_, _, _, _)
decompress_from(dec, input, out, cap) ==
    LET stop == [dec |-> dec, rest |-> input, out |-> out]
        room == cap - Len(out)
    IN  IF room <= 0 THEN stop
        ELSE IF dec.mode = "Run"
        THEN LET n == Min(dec.rem, room)
             IN  decompress_from(Emit(dec, n), input,
                                 out \o [i \in 1..n |-> dec.byte], cap)
        ELSE IF input = <<>> THEN stop
        ELSE IF dec.mode = "Idle"
        THEN IF Head(input) < 128
             THEN decompress_from([mode |-> "Literal", rem |-> Head(input) + 1,
                                   byte |-> 0], Tail(input), out, cap)
             ELSE decompress_from([mode |-> "RunByte", rem |-> Head(input) - 127,
                                   byte |-> 0], Tail(input), out, cap)
        ELSE IF dec.mode = "RunByte"
        THEN decompress_from([mode |-> "Run", rem |-> dec.rem,
                              byte |-> Head(input)], Tail(input), out, cap)
        ELSE LET n == Min(Min(dec.rem, Len(input)), room)
             IN  decompress_from(Emit(dec, n),
                                 SubSeq(input, n + 1, Len(input)),
                                 out \o SubSeq(input, 1, n), cap)

decompress(dec, input, cap) == decompress_from(dec, input, <<>>, cap)

(***************************************************************************)
(* ServerImpl: what each handler computes.                                 *)
(***************************************************************************)
\* lock without the assert: whoever asks gets the lock.
lock_unasserted(holder, sender) == [holder |-> sender, res |-> Ok]

\* lock: the assert, then the sender is recorded.
lock(holder, sender) ==
    IF holder # NoTask /\ holder # sender
    THEN [holder |-> holder, res |-> Panic]
    ELSE [holder |-> sender, res |-> Ok]

\* release that does not look for a holder.
release_unchecked(holder, sender) == [holder |-> NoTask, res |-> Ok]

\* release: NotLocked when nobody holds the lock.
release(holder, sender) ==
    IF holder = NoTask THEN [holder |-> holder, res |-> NotLocked]
    ELSE IF holder # sender THEN [holder |-> holder, res |-> Panic]
    ELSE [holder |-> NoTask, res |-> Ok]

\* start_bitstream_load that carries the byte count over.
start_loader_keeping_count(loader, bitstream_type) ==
    IF bitstream_type = "Uncompressed"
    THEN UncompressedLoadInprogress(loader.len)
    ELSE CompressedLoadInProgress(DecompressorDefault, loader.len)

\* start_bitstream_load: the loader is assigned, then the device is started.
start_loader(loader, bitstream_type) ==
    IF bitstream_type = "Uncompressed"
    THEN UncompressedLoadInprogress(0)
    ELSE CompressedLoadInProgress(DecompressorDefault, 0)

\* The compressed loop without the test for an empty output.
RECURSIVE continue_compressed_unguarded(_, _, _, _, _, _)
continue_compressed_unguarded(dec, chunk, len, f, n, c) ==
    IF chunk = <<>>
    THEN [dec |-> dec, len |-> len, ev |-> <<>>, res |-> Ok]
    ELSE LET r == decompress(dec, chunk, DECOMPRESS_BUFFER_LEN)
             w == Run(continue_bitstream_load(r.out),
                      IF n + 1 = f THEN 1 ELSE 0, c)
         IN  IF w.res # Ok
             THEN [dec |-> r.dec, len |-> len, ev |-> w.ev, res |-> w.res]
             ELSE LET t == continue_compressed_unguarded(r.dec, r.rest,
                               len + Len(r.out), f, n + 1, c)
                  IN  [t EXCEPT !.ev = w.ev \o @]

\* continue_bitstream_load, compressed: decompress until the chunk is used
\* up, writing every non-empty output; the f-th write fails (0: none), n
\* writes have been made.
RECURSIVE continue_compressed(_, _, _, _, _, _)
continue_compressed(dec, chunk, len, f, n, c) ==
    IF chunk = <<>>
    THEN [dec |-> dec, len |-> len, ev |-> <<>>, res |-> Ok]
    ELSE LET r == decompress(dec, chunk, DECOMPRESS_BUFFER_LEN)
         IN  IF Len(r.out) > 0
             THEN LET w == Run(continue_bitstream_load(r.out),
                               IF n + 1 = f THEN 1 ELSE 0, c)
                  IN  IF w.res # Ok
                      THEN [dec |-> r.dec, len |-> len, ev |-> w.ev,
                            res |-> w.res]
                      ELSE LET t == continue_compressed(r.dec, r.rest,
                                        len + Len(r.out), f, n + 1, c)
                           IN  [t EXCEPT !.ev = w.ev \o @]
             ELSE continue_compressed(r.dec, r.rest, len, f, n, c)

\* continue_bitstream_load with a load in progress.
continue_loader(loader, chunk, f, c) ==
    IF loader.kind = "Uncompressed"
    THEN LET w == Run(continue_bitstream_load(chunk), f, c)
         IN  [loader |-> IF w.res = Ok
                         THEN UncompressedLoadInprogress(loader.len + Len(chunk))
                         ELSE loader,
              ev |-> w.ev, res |-> w.res]
    ELSE LET r == continue_compressed(loader.dec, chunk, loader.len, f, 0, c)
         IN  [loader |-> CompressedLoadInProgress(r.dec, r.len),
              ev |-> r.ev, res |-> r.res]

\* finish_bitstream_load: the loader once the device's finish returned res.
finish_loader(loader, res) == IF res = Ok THEN LoaderNone ELSE loader

(***************************************************************************)
(* Inputs of the handlers.                                                 *)
(***************************************************************************)
ImplCodes == {1}                       \* codes a failing transport call reports
BitstreamTypes == {"Uncompressed", "Compressed"}
Chunks == { <<>>, <<7>>, <<129>> }

(***************************************************************************)
(* The dispatch loop: with a lock holder recorded the server receives from *)
(* the holder only (recv_source); without one, from any task.              *)
(***************************************************************************)
\* recv_source that never closes the receive.
recv_source_open == NoTask

recv_source == lock_holder

Receivable(c) ==
    /\ pc = "recv"
    /\ c \in alive
    /\ recv_source \in {NoTask, c}

\* The log of a handled request.
Handled(op, c, res, ev, val) ==
    last' = [op |-> op, caller |-> c, res |-> res, ev |-> ev, val |-> val]

\* The channel and the pins after the calls ev.
Commit(ev) ==
    /\ chan_locked' = LockedAfter(ev, chan_locked)
    /\ chan_opcode' = OpcodeAfter(ev, chan_opcode)
    /\ application_reset_n' = ApplicationResetAfter(ev, application_reset_n)
    /\ faults' = IF ev # <<>> /\ ~ev[Len(ev)].ok THEN faults - 1 ELSE faults

AfterReply(res) == IF res = Panic THEN "panicked" ELSE "recv"

\* task/fpga-debug main: no bitstream, waiting for a request.  "exit" is
\* history: how its last handler ended.  "application_lock" is the guard of
\* FpgaApplication::lock, for a task that has an FpgaApplication as well.
DebugBoot == [pc |-> "recv", bitstream |-> "None", exit |-> "boot",
              application_lock |-> "None"]

Boot(tasks, f) ==
    /\ lock_holder = NoTask
    /\ bitstream_loader = LoaderNone
    /\ pc = "recv"
    /\ polls = 0
    /\ alive = tasks
    /\ faults = f
    /\ chan_locked = FALSE
    /\ chan_opcode = Noop
    /\ application_reset_n \in BOOLEAN
    /\ burst_open = FALSE
    /\ reclaimed = {}
    /\ last = [op |-> "boot", caller |-> NoTask, res |-> Ok, ev |-> <<>>,
               val |-> <<>>]
    /\ debug = DebugBoot

\* Both clients, a transport that never fails.
Init == Boot(Clients, 0)

\* One client, a transport any call of which may fail, MaxFaults times.
InitFaulty == Boot({1}, MaxFaults)


(***************************************************************************)
(* The session lock.                                                       *)
(***************************************************************************)
Lock(c) ==
    /\ Receivable(c)
    /\ LET r == lock(lock_holder, c)
       IN  /\ lock_holder' = r.holder
           /\ pc' = AfterReply(r.res)
           /\ Handled("lock", c, r.res, <<>>, <<>>)
    /\ UNCHANGED << bitstream_loader, polls, alive, chan_locked, chan_opcode,
                    application_reset_n, burst_open, reclaimed, faults >>

Release(c) ==
    /\ Receivable(c)
    /\ LET r == release(lock_holder, c)
       IN  /\ lock_holder' = r.holder
           /\ pc' = AfterReply(r.res)
           /\ Handled("release", c, r.res, <<>>, <<>>)
    /\ UNCHANGED << bitstream_loader, polls, alive, chan_locked, chan_opcode,
                    application_reset_n, burst_open, reclaimed, faults >>

\* closed_recv_fail that keeps the holder.
closed_recv_ignored(holder) == holder

\* closed_recv_fail: the closed receive from a holder that is gone fails.
closed_recv_fail(holder) == NoTask

\* A closed receive's failure that gives the load up with the lock.
ClosedRecvAbortsLoad ==
    /\ pc = "recv"
    /\ recv_source # NoTask
    /\ recv_source \notin alive
    /\ lock_holder' = closed_recv_fail(lock_holder)
    /\ reclaimed' = reclaimed \cup {lock_holder}
    /\ bitstream_loader' = LoaderNone
    /\ Handled("closed_recv_fail", lock_holder, Ok, <<>>, <<>>)
    /\ UNCHANGED << pc, polls, alive, chan_locked, chan_opcode,
                    application_reset_n, burst_open, faults, debug >>

ClosedRecvFail ==
    /\ pc = "recv"
    /\ recv_source # NoTask
    /\ recv_source \notin alive
    /\ lock_holder' = closed_recv_fail(lock_holder)
    /\ reclaimed' = reclaimed \cup {lock_holder}
    /\ Handled("closed_recv_fail", lock_holder, Ok, <<>>, <<>>)
    /\ UNCHANGED << bitstream_loader, pc, polls, alive, chan_locked,
                    chan_opcode, application_reset_n, burst_open, faults,
                    debug >>

\* A client task terminates.
Die(c) ==
    /\ c \in alive
    /\ alive' = alive \ {c}
    /\ UNCHANGED << lock_holder, bitstream_loader, pc, polls, chan_locked,
                    chan_opcode, application_reset_n, burst_open, reclaimed,
                    faults, last, debug >>

(***************************************************************************)
(* Device queries and pin control.  p, i, d are the levels PROGRAM_N,      *)
(* INIT_N and DONE are read at.                                            *)
(***************************************************************************)
DeviceState(c, p, i, d) ==
    /\ Receivable(c)
    /\ \E f \in FailPoints(device_state(p, i, d)), code \in ImplCodes :
          LET w == Run(device_state(p, i, d), f, code)
          IN  /\ Commit(w.ev)
              /\ Handled("device_state", c, w.res, w.ev,
                         IF w.res = Ok
                         THEN <<device_state_of(p, i, d), B2N(p), B2N(i), B2N(d)>>
                         ELSE <<>>)
    /\ UNCHANGED << lock_holder, bitstream_loader, pc, polls, alive,
                    burst_open, reclaimed >>

DeviceId(c, bytes) ==
    /\ Receivable(c)
    /\ \E f \in FailPoints(device_id(bytes)), code \in ImplCodes :
          LET w == Run(device_id(bytes), f, code)
          IN  /\ Commit(w.ev)
              /\ Handled("device_id", c, w.res, w.ev,
                         IF w.res = Ok THEN bytes ELSE <<>>)
    /\ UNCHANGED << lock_holder, bitstream_loader, pc, polls, alive,
                    burst_open, reclaimed >>

SetApplicationEnabled(c, enabled) ==
    /\ Receivable(c)
    /\ \E f \in FailPoints(set_application_enabled(enabled)),
          code \in ImplCodes :
          LET w == Run(set_application_enabled(enabled), f, code)
          IN  /\ Commit(w.ev)
              /\ Handled("set_application_enabled", c, w.res, w.ev, <<>>)
    /\ UNCHANGED << lock_holder, bitstream_loader, pc, polls, alive,
                    burst_open, reclaimed >>

(***************************************************************************)
(* The bitstream load.                                                     *)
(***************************************************************************)
StartBitstreamLoad(c, bitstream_type, s1, s2) ==
    /\ Receivable(c)
    /\ StatusWriteEnabled(U32FromBe(s1)) => s2 = s1
    /\ \E f \in FailPoints(start_bitstream_load(s1, s2)),
          code \in ImplCodes :
          LET w == Run(start_bitstream_load(s1, s2), f, code)
          IN  /\ bitstream_loader' = start_loader(bitstream_loader, bitstream_type)
              /\ Commit(w.ev)
              /\ burst_open' = (w.res = Ok \/ burst_open)
              /\ Handled("start_bitstream_load", c, w.res, w.ev, <<>>)
    /\ UNCHANGED << lock_holder, pc, polls, alive, reclaimed >>

ContinueBitstreamLoad(c, chunk) ==
    /\ Receivable(c)
    /\ IF ~InProgress(bitstream_loader)
       THEN /\ pc' = "panicked"
            /\ Handled("continue_bitstream_load", c, Panic, <<>>, chunk)
            /\ UNCHANGED << bitstream_loader, chan_locked, chan_opcode,
                            application_reset_n, faults >>
       ELSE /\ \E f \in FailPoints(continue_bitstream_load(chunk)),
                     code \in ImplCodes :
                  LET r == continue_loader(bitstream_loader, chunk, f, code)
                  IN  /\ f = 1 => r.res # Ok      \* a failure needs a write
                      /\ r.loader.len <= MaxBytes
                      /\ bitstream_loader' = r.loader
                      /\ Commit(r.ev)
                      /\ Handled("continue_bitstream_load", c, r.res, r.ev,
                                 chunk)
            /\ pc' = pc
    /\ UNCHANGED << lock_holder, polls, alive, burst_open, reclaimed >>

\* finish_bitstream_load that releases the channel before it looks at the
\* loader.
finish_release_first(c) ==
    /\ Receivable(c)
    /\ \E f \in FailPoints(Call(impl_release)), code \in ImplCodes :
          LET w == Run(Call(impl_release), f, code)
              res == IF ~InProgress(bitstream_loader) THEN Panic
                     ELSE IF w.res = Ok THEN Pending ELSE w.res
          IN  /\ Commit(w.ev)
              /\ pc' = IF res = Pending THEN "await_not_busy"
                       ELSE AfterReply(res)
              /\ burst_open' = (burst_open /\ w.res # Ok)
              /\ Handled("finish_bitstream_load", c, res, w.ev, <<>>)
    /\ polls' = 0
    /\ UNCHANGED << lock_holder, bitstream_loader, alive, reclaimed >>

\* finish_bitstream_load up to its first wait: the channel is released.
FinishBitstreamLoad(c) ==
    /\ Receivable(c)
    /\ IF ~InProgress(bitstream_loader)
       THEN /\ pc' = "panicked"
            /\ Handled("finish_bitstream_load", c, Panic, <<>>, <<>>)
            /\ UNCHANGED << chan_locked, chan_opcode, application_reset_n,
                            burst_open, faults >>
       ELSE \E f \in FailPoints(Call(impl_release)), code \in ImplCodes :
               LET w == Run(Call(impl_release), f, code)
               IN  /\ Commit(w.ev)
                   /\ pc' = IF w.res = Ok THEN "await_not_busy" ELSE "recv"
                   /\ burst_open' = (burst_open /\ w.res # Ok)
                   /\ Handled("finish_bitstream_load", c,
                              IF w.res = Ok THEN Pending ELSE w.res, w.ev, <<>>)
    /\ polls' = 0
    /\ UNCHANGED << lock_holder, bitstream_loader, alive, reclaimed >>

\* finish returns res to the caller.
FinishReturns(w) ==
    /\ Commit(w.ev)
    /\ bitstream_loader' = finish_loader(bitstream_loader, w.res)
    /\ pc' = "recv"
    /\ polls' = 0
    /\ last' = [last EXCEPT !.res = w.res, !.ev = @ \o w.ev]

\* finish goes round a wait loop: the log takes the events of MaxPolls rounds.
FinishPolls(w) ==
    /\ Commit(w.ev)
    /\ polls' = IF polls < MaxPolls THEN polls + 1 ELSE polls
    /\ last' = IF polls < MaxPolls THEN [last EXCEPT !.ev = @ \o w.ev] ELSE last
    /\ UNCHANGED << bitstream_loader, pc >>

FinishMovesTo(w, next) ==
    /\ Commit(w.ev)
    /\ pc' = next
    /\ polls' = 0
    /\ last' = [last EXCEPT !.ev = @ \o w.ev]
    /\ UNCHANGED bitstream_loader

AwaitNotBusy(s) ==
    /\ pc = "await_not_busy"
    /\ \E f \in FailPoints(await_not_busy(s).p), code \in ImplCodes :
          LET w == Run(await_not_busy(s).p, f, code)
          IN  IF w.res # Ok THEN FinishReturns(w)
              ELSE IF await_not_busy(s).again THEN FinishPolls(w)
              ELSE FinishMovesTo(w, "climb_out")
    /\ UNCHANGED << lock_holder, alive, burst_open, reclaimed, debug >>

ClimbOut(s) ==
    /\ pc = "climb_out"
    /\ \E f \in FailPoints(climb_out(s)), code \in ImplCodes :
          LET w == Run(climb_out(s), f, code)
          IN  IF w.res # Ok THEN FinishReturns(w)
              ELSE FinishMovesTo(w, "await_done")
    /\ UNCHANGED << lock_holder, alive, burst_open, reclaimed, debug >>

AwaitDone(s) ==
    /\ pc = "await_done"
    /\ LET p == IF await_done(s).again THEN await_done(s).p
                ELSE Then(await_done(s).p, wake_up(APPLICATION_RESET_DURATION))
       IN  \E f \in FailPoints(p), code \in ImplCodes :
              LET w == Run(p, f, code)
              IN  IF w.res = Ok /\ await_done(s).again THEN FinishPolls(w)
                  ELSE FinishReturns(w)
    /\ UNCHANGED << lock_holder, alive, burst_open, reclaimed, debug >>

(***************************************************************************)
(* main: a panicked server task is started again.  The server's fields are *)
(* built afresh; the channel and the pins are as they were left.  A failed *)
(* read of the device state is ignored; a failed device_id is unwrapped.   *)
(***************************************************************************)
Restart(p, i, d, bytes) ==
    /\ pc = "panicked"
    /\ \E f \in FailPoints(device_state(p, i, d)), code \in ImplCodes :
          LET w == Run(device_state(p, i, d), f, code)
          IN  IF w.res = Ok /\ device_state_of(p, i, d) = DS_AwaitingBitstream
              THEN \E g \in FailPoints(device_id(bytes)) :
                      LET x == Run(device_id(bytes), g, code)
                      IN  /\ Commit(x.ev)
                          /\ pc' = AfterReply(IF x.res = Ok THEN Ok ELSE Panic)
                          /\ Handled("boot", NoTask,
                                     IF x.res = Ok THEN Ok ELSE Panic,
                                     w.ev \o x.ev, <<>>)
              ELSE /\ Commit(w.ev)
                   /\ pc' = "recv"
                   /\ Handled("boot", NoTask, Ok, w.ev, <<>>)
    /\ lock_holder' = NoTask
    /\ bitstream_loader' = LoaderNone
    /\ polls' = 0
    /\ UNCHANGED << alive, burst_open, reclaimed, debug >>

(***************************************************************************)
(* The specification.                                                      *)
(***************************************************************************)
\* The clients send any request at any time; the fpga-debug task is not
\* one of them and stays as booted.
Next ==
    \/ \E c \in Clients : Lock(c) /\ UNCHANGED debug
    \/ \E c \in Clients : Release(c) /\ UNCHANGED debug
    \/ ClosedRecvFail
    \/ \E c \in Clients : Die(c)
    \/ \E c \in Clients, p \in BOOLEAN, i \in BOOLEAN, d \in BOOLEAN :
          DeviceState(c, p, i, d) /\ UNCHANGED debug
    \/ \E c \in Clients, b \in IdReads : DeviceId(c, b) /\ UNCHANGED debug
    \/ \E c \in Clients, e \in BOOLEAN :
          SetApplicationEnabled(c, e) /\ UNCHANGED debug
    \/ \E c \in Clients, t \in BitstreamTypes, s1 \in StartReads,
          s2 \in StartReads :
          StartBitstreamLoad(c, t, s1, s2) /\ UNCHANGED debug
    \/ \E c \in Clients, chunk \in Chunks :
          ContinueBitstreamLoad(c, chunk) /\ UNCHANGED debug
    \/ \E c \in Clients : FinishBitstreamLoad(c) /\ UNCHANGED debug
    \/ \E s \in BusyReads : AwaitNotBusy(s)
    \/ \E s \in ClimbOutReads : ClimbOut(s)
    \/ \E s \in DoneReads : AwaitDone(s)
    \/ \E p \in BOOLEAN, i \in BOOLEAN, d \in BOOLEAN, b \in IdReads :
          Restart(p, i, d, b)

Spec == Init /\ [][Next]_vars

FaultySpec == InitFaulty /\ [][Next]_vars

\* The dispatch loop keeps receiving: a closed receive that can fail does.
FairSpec == Init /\ [][Next]_vars /\ WF_vars(ClosedRecvFail)

\* finish_bitstream_load with a device that does what it is waited for: it
\* clears busy in the end, answers the climb-out read, and in the end shows
\* done.
BusyClears ==
    \E s \in BusyReads : ~StatusBusy(U32FromBe(s)) /\ AwaitNotBusy(s)
ClimbOutAnswered == \E s \in ClimbOutReads : ClimbOut(s)
DoneShows == \E s \in DoneReads : StatusDone(U32FromBe(s)) /\ AwaitDone(s)

\* One client and a transport that does not fail.
InitSolo == Boot({1}, 0)

DeviceFairSpec ==
    /\ InitSolo /\ [][Next]_vars
    /\ WF_vars(BusyClears) /\ WF_vars(ClimbOutAnswered) /\ WF_vars(DoneShows)


(***************************************************************************)
(* Reading the history: which step a transition is, and what the log of    *)
(* the request handled last holds.                                         *)
(***************************************************************************)
ReleaseStep == \E c \in Clients : Release(c)
LockStep == \E c \in Clients : Lock(c)

\* The requests of the interface that are modelled.
RequestOps ==
    {"lock", "release", "device_state", "device_id", "set_application_enabled",
     "start_bitstream_load", "continue_bitstream_load", "finish_bitstream_load"}

\* The server, receiving, takes a request and handles it: the step is not a
\* client terminating and not the closed receive failing.
RequestStep == pc = "recv" /\ alive' = alive /\ last'.op \in RequestOps
StartStep ==
    \E c \in Clients, t \in BitstreamTypes, s1 \in StartReads,
       s2 \in StartReads : StartBitstreamLoad(c, t, s1, s2)
ContinueStep ==
    \E c \in Clients, chunk \in Chunks : ContinueBitstreamLoad(c, chunk)
FinishStep == \E c \in Clients : FinishBitstreamLoad(c)
\* The request handled in this step is the one named.
RequestOf(op) == RequestStep /\ last'.op = op
DeviceStateStep == RequestOf("device_state")

At(ev, k, a) == {i \in 1..Len(ev) : ev[i].k = k /\ ev[i].a = a /\ ev[i].ok}
CallsOf(ev, k) == {i \in 1..Len(ev) : ev[i].k = k}
IsRead(e) == e.k = "read" /\ e.ok
WordsRead(ev) == SelectSeq(ev, IsRead)
FinishLog == IF last.op = "finish_bitstream_load" THEN last.ev ELSE <<>>

\* The position, among the words finish has read, of the word read after
\* busy cleared; 0 when finish has not read it.
ClimbOutWord ==
    LET w == WordsRead(FinishLog)
        idle == {i \in 1..Len(w) :
                    /\ ~StatusBusy(U32FromBe(w[i].d))
                    /\ \A j \in 1..(i - 1) : StatusBusy(U32FromBe(w[j].d))}
    IN  IF \E i \in idle : i < Len(w) THEN (CHOOSE i \in idle : TRUE) + 1 ELSE 0

(***************************************************************************)
(* C1.                                                                     *)
(***************************************************************************)
\* C1: between a successful start-bitstream-load and the channel release
\* made by finish-bitstream-load the channel lock stays held and the last
\* opcode written to the channel is the burst-load opcode, whatever requests
\* the server handles in between.
C1_BurstNotInterleaved ==
    burst_open => (chan_locked /\ chan_opcode = BitstreamBurst)

(***************************************************************************)
(* C2.                                                                     *)
(***************************************************************************)
\* C2: for every combination of the pin levels (program_n, init_n, done),
\* device-state answers by first match: program_n low -> Disabled; else done
\* high -> RunningApplication whatever init_n is; else init_n high ->
\* AwaitingBitstream; else Error; and never Unknown.
C2_DeviceStateTable ==
    (last.op = "device_state" /\ last.res = Ok)
      => LET s == last.val[1]
             p == last.val[2] = 1
             i == last.val[3] = 1
             d == last.val[4] = 1
         IN  /\ ~p => s = DS_Disabled
             /\ (p /\ d) => s = DS_RunningApplication
             /\ (p /\ ~d /\ i) => s = DS_AwaitingBitstream
             /\ (p /\ ~d /\ ~i) => s = DS_Error
             /\ s # DS_Unknown

\* done high with init_n low: RunningApplication all the same.
C2_Witness ==
    /\ last.op = "device_state"
    /\ last.val = <<DS_RunningApplication, 1, 0, 1>>

(***************************************************************************)
(* C3.                                                                     *)
(***************************************************************************)
\* C3: a start-bitstream-load while a load is in progress is rejected as a
\* programming error: the loader (state, byte count, decompressor) is left
\* as it was and nothing is sent to the device.
C3_SecondStartRejected ==
    [][(InProgress(bitstream_loader) /\ StartStep)
         => /\ bitstream_loader' = bitstream_loader
            /\ last'.res = Panic
            /\ last'.ev = <<>>]_vars

(***************************************************************************)
(* C4.                                                                     *)
(***************************************************************************)
\* C4: when start-bitstream-load returns an error the loader is still Idle,
\* and a continue-bitstream-load that follows gets the programming-error
\* signal and writes nothing to the channel.
C4_FailedStartLeavesIdle ==
    [][/\ (~InProgress(bitstream_loader) /\ StartStep /\ last'.res # Ok)
            => bitstream_loader' = LoaderNone
       /\ (last.op = "start_bitstream_load" /\ last.res # Ok /\ ContinueStep)
            => (last'.res = Panic /\ last'.ev = <<>>)]_vars

(***************************************************************************)
(* C5.                                                                     *)
(***************************************************************************)
\* C5: when the status word finish-bitstream-load reads after busy cleared
\* has a nonzero bitstream-error subfield, finish returns BitstreamError
\* with that code, having read nothing more, sent no DisableConfigurationMode
\* and not touched the application reset: the last opcode the device got is
\* the status read.
C5_RejectedFinish ==
    LET w == WordsRead(FinishLog)
        n == ClimbOutWord
    IN  (n # 0 /\ BseErrorCode(U32FromBe(w[n].d)) # 0)
          => /\ pc = "recv"
             /\ last.res = BitstreamErrorOf(BseErrorCode(U32FromBe(w[n].d)))
             /\ Len(w) = n
             /\ CallsOf(FinishLog, "done") = {}
             /\ At(FinishLog, "cmd", DisableConfigurationMode) = {}
             /\ CallsOf(FinishLog, "set_application_reset_n") = {}
             /\ chan_opcode = ReadStatus

\* finish read a CRC mismatch (code 3) and returned it.
C5_Witness ==
    /\ last.op = "finish_bitstream_load"
    /\ pc = "recv"
    /\ ClimbOutWord # 0
    /\ last.res = BitstreamErrorOf(3)

(***************************************************************************)
(* C6.                                                                     *)
(***************************************************************************)
\* C6: a finish-bitstream-load that read a bitstream-error subfield of 0 and
\* returned has, in this order and once each: sent DisableConfigurationMode,
\* seen the done pin asserted, slept the settle delay, and enabled the
\* application; the application is not enabled before the done pin was seen
\* asserted.
C6_WakeUpOrder ==
    (last.op = "finish_bitstream_load" /\ pc = "recv" /\ last.res = Ok)
      => /\ Cardinality(At(last.ev, "cmd", DisableConfigurationMode)) = 1
         /\ Cardinality(CallsOf(last.ev, "set_application_reset_n")) = 1
         /\ \E i \in At(last.ev, "cmd", DisableConfigurationMode),
               j \in At(last.ev, "done", 1),
               k \in At(last.ev, "sleep", APPLICATION_RESET_DURATION),
               l \in At(last.ev, "set_application_reset_n", 1) :
                 i < j /\ j < k /\ k < l

(***************************************************************************)
(* C7.                                                                     *)
(***************************************************************************)
\* C7: once finish-bitstream-load has returned, with success or with
\* BitstreamError, the loader is in no in-progress variant.
C7_FinishEndsLoad ==
    (/\ last.op = "finish_bitstream_load"
     /\ pc = "recv"
     /\ last.res.tag \in {"Ok", "BitstreamError"})
      => ~InProgress(bitstream_loader)

(***************************************************************************)
(* C8.                                                                     *)
(***************************************************************************)
\* C8: when a request whose protocol operation took the channel lock returns
\* a transport error because the opcode write or the data read failed, the
\* channel lock is not held on return.
C8_ChannelReleasedOnError ==
    (/\ pc = "recv"
     /\ last.op \in {"device_id", "start_bitstream_load"}
     /\ last.res.tag = "ImplError"
     /\ last.ev # <<>>
     /\ last.ev[Len(last.ev)].k \in {"cmd", "read"}
     /\ LockedAfter(SubSeq(last.ev, 1, Len(last.ev) - 1), FALSE))
      => ~chan_locked

(***************************************************************************)
(* C9.                                                                     *)
(***************************************************************************)
\* C9: release() with no owner recorded fails with NotLocked and leaves the
\* lock free; release() by the recorded owner clears the owner and succeeds.
C9_Release ==
    [][ReleaseStep
         => IF lock_holder = NoTask
            THEN last'.res = NotLocked /\ lock_holder' = NoTask
            ELSE /\ last'.caller = lock_holder
                 /\ last'.res = Ok
                 /\ lock_holder' = NoTask]_vars

\* a release() that found no owner.
C9_Witness ==
    /\ last.op = "release"
    /\ last.res = NotLocked
    /\ lock_holder = NoTask

(***************************************************************************)
(* C10.                                                                    *)
(***************************************************************************)
\* C10: when the server is receiving and the recorded holder of the session
\* lock has terminated, the closed receive fails and the lock is cleared: a
\* terminated holder does not keep the lock for ever, and a lock() by
\* another caller then succeeds.
C10_TerminatedHolderCleared ==
    \A a \in Clients :
       (pc = "recv" /\ lock_holder = a /\ a \notin alive)
          ~> (lock_holder # a /\ a \in reclaimed)

\* the lock was taken from a terminated holder and another caller has it.
C10_Witness ==
    \E a \in Clients, b \in Clients :
       /\ a # b
       /\ a \in reclaimed
       /\ a \notin alive
       /\ last.op = "lock"
       /\ last.caller = b
       /\ last.res = Ok
       /\ lock_holder = b

(***************************************************************************)
(* C11.                                                                    *)
(***************************************************************************)
\* C11: lock() on a free lock records the caller and succeeds; on a lock
\* the caller already holds it succeeds and the owner stays; asked by
\* another caller while held it aborts the server and the owner stays.  The
\* owner recorded is at every moment one client or none.
C11_Lock ==
    /\ [](lock_holder \in Clients \cup {NoTask})
    /\ [](\A h \in Clients \cup {NoTask}, c \in Clients :
             IF h = NoTask \/ h = c
             THEN lock(h, c) = [holder |-> c, res |-> Ok]
             ELSE lock(h, c) = [holder |-> h, res |-> Panic])
    /\ [][LockStep
            => /\ last'.res = Ok
               /\ lock_holder' = last'.caller
               /\ lock_holder # NoTask => lock_holder' = lock_holder]_vars

\* a lock() that succeeded: the caller is the owner.
C11_Witness ==
    /\ last.op = "lock"
    /\ last.res = Ok
    /\ lock_holder = last.caller
    /\ lock_holder \in Clients

(***************************************************************************)
(* C12.                                                                    *)
(***************************************************************************)
\* C12: while a client holds the session lock, every request the server
\* handles is that client's, until it releases the lock or its termination
\* is detected; with the lock free the requests of any client are handled.
C12_HolderOnly ==
    [][RequestStep => (last'.caller \in Clients
                       /\ lock_holder \in {NoTask, last'.caller})]_vars

\* a query of the holder handled while it holds the lock.
C12_Witness ==
    /\ lock_holder \in Clients
    /\ last.op = "device_id"
    /\ last.caller = lock_holder
    /\ Clients \ {lock_holder} \subseteq alive

(***************************************************************************)
(* The FpgaError codec (drv/fpga-api): a reply's error goes over the wire   *)
(* as a number and the client turns the number back into an FpgaError.     *)
(***************************************************************************)
Bytes == 0..255
Words16 == 0..65535

FpgaErrors ==
    {ImplError(c) : c \in Bytes} \cup {BitstreamErrorOf(c) : c \in Bytes}
      \cup {InvalidState, InvalidValue, PortDisabled, NotLocked}

DecodeFailed == [tag |-> "Err", code |-> 0]        \* Err(())

\* From<FpgaError> for u16 with InvalidValue given InvalidState's number.
u16_from_aliased(e) ==
    IF e.tag = "ImplError" THEN 256 + e.code
    ELSE IF e.tag = "BitstreamError" THEN 512 + e.code
    ELSE IF e.tag \in {"InvalidState", "InvalidValue"} THEN 768
    ELSE IF e.tag = "PortDisabled" THEN 1024
    ELSE 1280

\* From<FpgaError> for u16.
u16_from(e) ==
    IF e.tag = "ImplError" THEN 256 + e.code            \* 0x0100 | code
    ELSE IF e.tag = "BitstreamError" THEN 512 + e.code  \* 0x0200 | code
    ELSE IF e.tag = "InvalidState" THEN 768             \* 0x0300
    ELSE IF e.tag = "InvalidValue" THEN 769             \* 0x0301
    ELSE IF e.tag = "PortDisabled" THEN 1024            \* 0x0400
    ELSE 1280                                           \* 0x0500 NotLocked

\* From<FpgaError> for u32: u16::from(e) as u32.
u32_from(e) == [hi |-> 0, lo |-> u16_from(e)]

\* TryFrom<u16> for FpgaError.
try_from_u16(v) ==
    IF (v \div 256) * 256 = 256 THEN ImplError(v % 256)
    ELSE IF (v \div 256) * 256 = 512 THEN BitstreamErrorOf(v % 256)
    ELSE IF v = 768 THEN InvalidState
    ELSE IF v = 769 THEN InvalidValue
    ELSE IF v = 1024 THEN PortDisabled
    ELSE IF v = 1280 THEN NotLocked
    ELSE DecodeFailed

\* TryFrom<u32> that cuts the number down to 16 bits (v as u16).
try_from_u32_truncating(v) == try_from_u16(v.lo)

\* TryFrom<u32> for FpgaError: v.try_into() fails above 0xFFFF.
try_from_u32(v) == IF v.hi # 0 THEN DecodeFailed ELSE try_from_u16(v.lo)

\* The numbers a client may be handed: every 16-bit one, and some above.
WireWords ==
    [hi : {0}, lo : Words16]
      \cup [hi : {1, 65535}, lo : {0, 256, 511, 768, 1280, 65535}]

\* Everything of the server at rest; pc and last carry the computation.
Bench(at, l) ==
    /\ lock_holder = NoTask
    /\ bitstream_loader = LoaderNone
    /\ pc = at
    /\ polls = 0
    /\ alive = {}
    /\ faults = 0
    /\ chan_locked = FALSE
    /\ chan_opcode = Noop
    /\ application_reset_n = FALSE
    /\ burst_open = FALSE
    /\ reclaimed = {}
    /\ last = l
    /\ debug = DebugBoot

BenchKept ==
    UNCHANGED << lock_holder, bitstream_loader, polls, alive, chan_locked,
                 chan_opcode, application_reset_n, burst_open, reclaimed,
                 faults, debug >>

\* Either an error about to be sent, or a number arriving from anywhere.
InitCodec ==
    \/ \E e \in FpgaErrors :
          Bench("reply", [op |-> "codec", sent |-> e,
                          wire |-> [hi |-> 0, lo |-> 0], got |-> Pending])
    \/ \E w \in WireWords :
          Bench("wire", [op |-> "codec", sent |-> Pending, wire |-> w,
                         got |-> Pending])

Encode ==
    /\ pc = "reply"
    /\ pc' = "wire"
    /\ last' = [last EXCEPT !.wire = u32_from(last.sent)]
    /\ BenchKept

Decode ==
    /\ pc = "wire"
    /\ pc' = "decoded"
    /\ last' = [last EXCEPT !.got = try_from_u32(last.wire)]
    /\ BenchKept

NextCodec == Encode \/ Decode

CodecSpec == InitCodec /\ [][NextCodec]_vars

(***************************************************************************)
(* C13.                                                                    *)
(***************************************************************************)
\* C13: every FpgaError, encoded to 16 bits, widened to 32 and decoded,
\* comes back as itself; each encoding lies in its variant's band or is its
\* variant's number, and no two errors share an encoding.
C13_RoundTrip ==
    LET e == last.sent
        w == last.wire
    IN  /\ (pc = "decoded" /\ e # Pending)
             => /\ last.got = e
                /\ w.hi = 0
                /\ e.tag = "ImplError" => w.lo \in 256..511
                /\ e.tag = "BitstreamError" => w.lo \in 512..767
                /\ e = InvalidState => w.lo = 768
                /\ e = InvalidValue => w.lo = 769
                /\ e = PortDisabled => w.lo = 1024
                /\ e = NotLocked => w.lo = 1280
        /\ pc = "reply"
             => \A x \in FpgaErrors : x # e => u16_from(x) # u16_from(e)

\* ImplError(255) went over the wire as 0x01FF and came back.
C13_Witness ==
    /\ pc = "decoded"
    /\ last.sent = ImplError(255)
    /\ last.wire = [hi |-> 0, lo |-> 511]
    /\ last.got = ImplError(255)

(***************************************************************************)
(* C14.                                                                    *)
(***************************************************************************)
\* C14: a number that is no FpgaError's encoding -- a 16-bit value outside
\* 0x0100-0x02FF other than 0x0300, 0x0301, 0x0400 and 0x0500, or any value
\* above 0xFFFF -- decodes to a failure, never to an FpgaError.
C14_DecodeFails ==
    LET w == last.wire
    IN  (/\ pc = "decoded"
         /\ \/ w.hi # 0
            \/ (w.lo \notin 256..767 /\ w.lo \notin {768, 769, 1024, 1280}))
          => last.got = DecodeFailed

\* 0x0302, next to InvalidValue, is refused.
C14_Witness ==
    /\ pc = "decoded"
    /\ last.wire = [hi |-> 0, lo |-> 770]
    /\ last.got = DecodeFailed

(***************************************************************************)
(* C15.                                                                    *)
(***************************************************************************)
\* C15: when the device answers the ReadId of a device-id request with
\* 0xFFFFFFFF, the request fails with PortDisabled.
C15_PortDisabled ==
    (/\ last.op = "device_id"
     /\ At(last.ev, "cmd", ReadId) # {}
     /\ \E i \in 1..Len(last.ev) : IsRead(last.ev[i]) /\ last.ev[i].d = SW_Ones)
      => last.res = PortDisabled

(***************************************************************************)
(* A compressed stream fed to continue_bitstream_load whole, and the same  *)
(* stream fed in two calls, the loader carrying the decompressor between   *)
(* them.                                                                   *)
(***************************************************************************)
MaxRuns == 8          \* full-length runs in a stream

OneLiteral == <<0, 7>>          \* a literal of one byte
FullRun == <<255, 9>>           \* a run of 128 bytes
ShortRun == <<129, 9>>          \* a run of 3 bytes

RECURSIVE Times(_, _)
Times(tok, n) == IF n = 0 THEN <<>> ELSE tok \o Times(tok, n - 1)

Streams ==
    {head \o Times(FullRun, n) \o tail :
        head \in {<<>>, OneLiteral}, n \in 0..MaxRuns,
        tail \in {<<>>, ShortRun}}

\* The bytes the write calls of a log put on the channel, in order.
RECURSIVE Written(_)
Written(ev) ==
    IF ev = <<>> THEN <<>>
    ELSE IF ev[1].k = "write" /\ ev[1].ok THEN ev[1].d \o Written(Tail(ev))
    ELSE Written(Tail(ev))

InitSplit ==
    \E stream \in Streams :
       \E cut \in 0..Len(stream) :
          Bench("whole", [op |-> "continue_bitstream_load", stream |-> stream,
                          cut |-> cut, one |-> <<>>, two |-> <<>>])

\* One call with the whole stream, on a load just started.
FeedWhole ==
    /\ pc = "whole"
    /\ LET r == continue_loader(CompressedLoadInProgress(DecompressorDefault, 0),
                                last.stream, 0, 0)
       IN  last' = [last EXCEPT !.one = Written(r.ev)]
    /\ bitstream_loader' = CompressedLoadInProgress(DecompressorDefault, 0)
    /\ pc' = "first"
    /\ UNCHANGED << lock_holder, polls, alive, chan_locked, chan_opcode,
                    application_reset_n, burst_open, reclaimed, faults,
                    debug >>

\* Two calls: the stream up to the cut, then the rest.
FeedFirst ==
    /\ pc = "first"
    /\ LET r == continue_loader(bitstream_loader,
                                SubSeq(last.stream, 1, last.cut), 0, 0)
       IN  /\ last' = [last EXCEPT !.two = Written(r.ev)]
           /\ bitstream_loader' = r.loader
    /\ pc' = "second"
    /\ UNCHANGED << lock_holder, polls, alive, chan_locked, chan_opcode,
                    application_reset_n, burst_open, reclaimed, faults,
                    debug >>

FeedSecond ==
    /\ pc = "second"
    /\ LET r == continue_loader(bitstream_loader,
                                SubSeq(last.stream, last.cut + 1,
                                       Len(last.stream)), 0, 0)
       IN  /\ last' = [last EXCEPT !.two = @ \o Written(r.ev)]
           /\ bitstream_loader' = r.loader
    /\ pc' = "fed"
    /\ UNCHANGED << lock_holder, polls, alive, chan_locked, chan_opcode,
                    application_reset_n, burst_open, reclaimed, faults,
                    debug >>

NextSplit == FeedWhole \/ FeedFirst \/ FeedSecond

SplitSpec == InitSplit /\ [][NextSplit]_vars

(***************************************************************************)
(* C16.                                                                    *)
(***************************************************************************)
\* C16: the bytes written to the channel for a compressed stream are the
\* same whether the stream is passed to continue-bitstream-load in one call
\* or in two calls split at any byte boundary.
C16_SplitInvariant == pc = "fed" => last.two = last.one

(***************************************************************************)
(* C17.                                                                    *)
(***************************************************************************)
\* C17: start-bitstream-load sends EnableConfigurationMode exactly when its
\* first status read shows write-enabled clear; when the read after it
\* shows write-enabled clear too, start fails with InvalidState and has not
\* driven the application reset, not written the burst opcode, and holds no
\* channel lock.
C17_StartModeCheck ==
    LET w == WordsRead(last.ev)
    IN  (last.op = "start_bitstream_load" /\ Len(w) >= 1)
          => /\ At(last.ev, "cmd", EnableConfigurationMode) # {}
                  <=> ~StatusWriteEnabled(U32FromBe(w[1].d))
             /\ Cardinality(At(last.ev, "cmd", EnableConfigurationMode)) <= 1
             /\ (Len(w) >= 2 /\ ~StatusWriteEnabled(U32FromBe(w[2].d)))
                  => /\ last.res = InvalidState
                     /\ CallsOf(last.ev, "set_application_reset_n") = {}
                     /\ At(last.ev, "cmd", BitstreamBurst) = {}
                     /\ ~chan_locked

\* the device refused to enter configuration mode.
C17_Witness ==
    /\ last.op = "start_bitstream_load"
    /\ last.res = InvalidState
    /\ At(last.ev, "cmd", EnableConfigurationMode) # {}

(***************************************************************************)
(* C18.                                                                    *)
(***************************************************************************)
FinishWaits == {"await_not_busy", "climb_out", "await_done"}

\* C18: with a device that in the end clears busy and, the bitstream
\* accepted, in the end shows done, finish-bitstream-load returns.  It has
\* no timeout: a poll that finds the device busy, or not done, is followed
\* by another poll however many went before, and while finish waits the
\* server handles no other request.
C18_NoTimeout ==
    /\ (pc \in FinishWaits) ~> (pc = "recv")
    /\ [][/\ AwaitNotBusy(SW_Busy) => pc' = "await_not_busy"
          /\ AwaitDone(SW_None) => pc' = "await_done"
          /\ (pc \in FinishWaits /\ pc' \in FinishWaits)
               => /\ last'.op = "finish_bitstream_load"
                  /\ last'.caller = last.caller
                  /\ UNCHANGED << lock_holder, bitstream_loader >>]_vars

\* finish has polled for done as often as the log counts, and polls on.
C18_Witness ==
    /\ pc = "await_done"
    /\ polls = MaxPolls
    /\ last.op = "finish_bitstream_load"

(***************************************************************************)
(* The scoped API (drv/fpga-api: FpgaLock, Bitstream) as the fpga-debug    *)
(* task uses it.  The task is the server's one client; each of its calls   *)
(* to the server is the server's handler of that request, and the task     *)
(* goes on from the reply.  A Bitstream holds an FpgaLock, whose drop      *)
(* sends release and ignores the result.                                   *)
(***************************************************************************)
DebugTask == 1

\* Fpga::start_bitstream_load, first call: Fpga::lock.  fpga-debug calls it
\* with no bitstream at hand.
DebugLock ==
    /\ debug.pc = "recv"
    /\ debug.bitstream = "None"
    /\ Lock(DebugTask)
    /\ debug' = IF last'.res = Ok THEN [debug EXCEPT !.pc = "start"]
                ELSE IF last'.res = Panic THEN debug
                ELSE [debug EXCEPT !.exit = "start_failed"]

\* Fpga::start_bitstream_load, second call, the lock in a Bitstream: on an
\* error the Bitstream is dropped, on success it is kept by the task.
DebugStart(t, s1, s2) ==
    /\ debug.pc = "start"
    /\ StartBitstreamLoad(DebugTask, t, s1, s2)
    /\ debug' = IF last'.res = Ok
                THEN [debug EXCEPT !.pc = "recv", !.bitstream = "Some",
                                   !.exit = "start_ok"]
                ELSE IF last'.res = Panic THEN debug
                ELSE [debug EXCEPT !.pc = "drop", !.exit = "start_failed"]

\* fpga-debug continue_bitstream_load: Bitstream::continue_load; on an error
\* the field is set to None, which drops the Bitstream.
DebugContinue(chunk) ==
    /\ debug.pc = "recv"
    /\ debug.bitstream = "Some"
    /\ ContinueBitstreamLoad(DebugTask, chunk)
    /\ debug' = IF last'.res = Ok THEN [debug EXCEPT !.exit = "continue_ok"]
                ELSE IF last'.res = Panic THEN debug
                ELSE [debug EXCEPT !.pc = "drop", !.exit = "continue_failed"]

\* fpga-debug finish_bitstream_load: Bitstream::finish_load is sent; an
\* error leaves the handler by the question mark, the field as it is.
DebugFinish ==
    /\ debug.pc = "recv"
    /\ debug.bitstream = "Some"
    /\ FinishBitstreamLoad(DebugTask)
    /\ debug' = IF last'.res = Pending THEN [debug EXCEPT !.pc = "finish"]
                ELSE IF last'.res = Panic THEN debug
                ELSE [debug EXCEPT !.exit = "finish_failed"]

\* The reply to finish arrives: on success the field is set to None, which
\* drops the Bitstream; on an error the handler is left, the field as it is.
DebugFinishReplied ==
    /\ debug.pc = "finish"
    /\ pc = "recv"
    /\ last.op = "finish_bitstream_load"
    /\ DebugTask \in alive
    /\ debug' = IF last.res = Ok
                THEN [debug EXCEPT !.pc = "drop", !.exit = "finish_ok"]
                ELSE [debug EXCEPT !.pc = "recv", !.exit = "finish_failed"]
    /\ UNCHANGED << lock_holder, bitstream_loader, pc, polls, alive,
                    chan_locked, chan_opcode, application_reset_n, burst_open,
                    reclaimed, faults, last >>

\* FpgaLock::drop: release is sent, its result ignored.
DebugDrop ==
    /\ debug.pc = "drop"
    /\ Release(DebugTask)
    /\ debug' = IF last'.res = Panic THEN debug
                ELSE [debug EXCEPT !.pc = "recv", !.bitstream = "None"]

\* fpga-debug panics: on start with a bitstream at hand, on continue and on
\* finish with none.  The task terminates.
DebugPanics ==
    /\ debug.pc = "recv"
    /\ \E req \in {"start", "continue", "finish"} :
          (req = "start") <=> (debug.bitstream = "Some")
    /\ Die(DebugTask)

\* One client, the fpga-debug task, and a transport that may fail.
InitDebug == Boot({DebugTask}, MaxFaults)

NextDebug ==
    \/ DebugLock
    \/ \E t \in BitstreamTypes, s1 \in StartReads, s2 \in StartReads :
          DebugStart(t, s1, s2)
    \/ \E chunk \in Chunks : DebugContinue(chunk)
    \/ DebugFinish
    \/ DebugFinishReplied
    \/ DebugDrop
    \/ DebugPanics
    \/ \E s \in BusyReads : AwaitNotBusy(s)
    \/ \E s \in ClimbOutReads : ClimbOut(s)
    \/ \E s \in DoneReads : AwaitDone(s)
    \/ ClosedRecvFail

DebugSpec == InitDebug /\ [][NextDebug]_vars

(***************************************************************************)
(* C19.                                                                    *)
(***************************************************************************)
\* C19: when a handler of the fpga-debug task has ended a load, by a failed
\* start, a failed continue, a finish that succeeded or a finish that
\* failed, the session lock is not held by the task and the task has no
\* bitstream at hand, so that it can start a new load.
C19_LockDropped ==
    (/\ debug.pc = "recv"
     /\ debug.exit \in {"start_failed", "continue_failed", "finish_ok",
                        "finish_failed"})
       => (lock_holder # DebugTask /\ debug.bitstream = "None")

\* The same for the three exits other than the failed finish.
C19_OtherExits ==
    (/\ debug.pc = "recv"
     /\ debug.exit \in {"start_failed", "continue_failed", "finish_ok"})
       => (lock_holder # DebugTask /\ debug.bitstream = "None")

(***************************************************************************)
(* C20.                                                                    *)
(***************************************************************************)
\* C20: a continue-bitstream-load or finish-bitstream-load that finds the
\* loader Idle aborts the server, and has made no call on the device: the
\* channel is neither written nor released, no pin is driven, and the
\* loader stays Idle.
C20_IdleIsProgrammingError ==
    [][(~InProgress(bitstream_loader) /\ (ContinueStep \/ FinishStep))
         => /\ last'.res = Panic
            /\ pc' = "panicked"
            /\ last'.ev = <<>>
            /\ UNCHANGED << chan_locked, chan_opcode, application_reset_n,
                            bitstream_loader, lock_holder >>]_vars

\* The server aborted on a finish with no load under way.
C20_Witness ==
    /\ pc = "panicked"
    /\ last.op = "finish_bitstream_load"
    /\ last.res = Panic
    /\ ~InProgress(bitstream_loader)

(***************************************************************************)
(* C21.                                                                    *)
(***************************************************************************)
PinReads == {"program_n", "done", "init_n"}

\* C21: device-state makes no call but reads of the three control pins: the
\* channel's lock and last opcode, the application reset, the session lock
\* and the loader are after it what they were before, a load in progress
\* included.
C21_DeviceStateReadsPins ==
    [][DeviceStateStep
         => /\ \A n \in 1..Len(last'.ev) : last'.ev[n].k \in PinReads
            /\ UNCHANGED << chan_locked, chan_opcode, application_reset_n,
                            lock_holder, bitstream_loader, burst_open, pc,
                            polls >>]_vars

\* The device state was asked for in the middle of a burst.
C21_Witness ==
    /\ last.op = "device_state"
    /\ last.res = Ok
    /\ InProgress(bitstream_loader)
    /\ chan_locked
    /\ chan_opcode = BitstreamBurst

(***************************************************************************)
(* C22.                                                                    *)
(***************************************************************************)
\* C22: a start that succeeds has driven the application reset to "not
\* enabled" before it took the channel lock of the burst and wrote the
\* burst opcode, and leaves it so; no start, no continue and no finish that
\* has not succeeded drives it to "enabled".
C22_ApplicationHeldInReset ==
    LET ev == last.ev
        off == At(ev, "set_application_reset_n", 0)
        on == At(ev, "set_application_reset_n", 1)
        burst == At(ev, "cmd", BitstreamBurst)
    IN  /\ (last.op = "start_bitstream_load" /\ last.res = Ok)
             => /\ off # {}
                /\ burst # {}
                /\ \A n \in off, b \in burst :
                      /\ ev[b - 1].k = "lock"
                      /\ n < b - 1
                /\ ~application_reset_n
        /\ last.op \in {"start_bitstream_load", "continue_bitstream_load"}
             => on = {}
        /\ (last.op = "finish_bitstream_load" /\ last.res # Ok) => on = {}

\* A start succeeded, the reset driven on its way.
C22_Witness ==
    /\ last.op = "start_bitstream_load"
    /\ last.res = Ok
    /\ At(last.ev, "set_application_reset_n", 0) # {}
    /\ chan_locked

(***************************************************************************)
(* C23.                                                                    *)
(***************************************************************************)
\* C23: the first call of finish is the release of the channel; every opcode
\* finish writes after it, a status read or DisableConfigurationMode, has
\* the lock taken just before it and the release after it (after the bytes
\* read, for a status read); a finish that returned success or a bitstream
\* error leaves the channel lock free.
C23_FinishUsesProtocol ==
    LET ev == FinishLog
        cmds == CallsOf(ev, "cmd")
    IN  /\ ev # <<>> => ev[1] = impl_release
        /\ \A n \in cmds :
              /\ ev[n].a \in {ReadStatus, DisableConfigurationMode}
              /\ ev[n - 1] = impl_lock
              /\ n < Len(ev)
              /\ IF ev[n].a = ReadStatus
                 THEN /\ ev[n + 1].k = "read"
                      /\ n + 1 < Len(ev)
                      /\ ev[n + 2] = impl_release
                 ELSE ev[n + 1] = impl_release
        /\ \A n \in CallsOf(ev, "read") : n - 1 \in cmds
        /\ \A n \in CallsOf(ev, "lock") : n + 1 \in cmds
        /\ (/\ ev # <<>>
            /\ pc = "recv"
            /\ last.res.tag \in {"Ok", "BitstreamError"}) => ~chan_locked

\* finish returned success, DisableConfigurationMode sent on the way.
C23_Witness ==
    /\ pc = "recv"
    /\ last.op = "finish_bitstream_load"
    /\ last.res = Ok
    /\ At(last.ev, "cmd", DisableConfigurationMode) # {}
    /\ ~chan_locked

(***************************************************************************)
(* One call of continue_bitstream_load on a compressed load just started,  *)
(* with a chunk long enough for the loop to go round more than once, and   *)
(* the write that fails, if one does, chosen.                              *)
(***************************************************************************)
MidRun == <<129>>               \* a run's control byte, its byte to come

LoopChunks ==
    Streams \cup {stream \o MidRun : stream \in Streams} \cup {MidRun \o MidRun}

MaxFailedWrite == 2

InitLoop ==
    \E chunk \in LoopChunks, f \in 0..MaxFailedWrite :
       Bench("chunk", [op |-> "continue_bitstream_load", val |-> chunk,
                       f |-> f, ev |-> <<>>, res |-> Pending])

FeedChunk ==
    /\ pc = "chunk"
    /\ \E code \in ImplCodes :
          LET r == continue_loader(
                      CompressedLoadInProgress(DecompressorDefault, 0),
                      last.val, last.f, code)
          IN  /\ last' = [last EXCEPT !.ev = r.ev, !.res = r.res]
              /\ bitstream_loader' = r.loader
    /\ pc' = "looped"
    /\ UNCHANGED << lock_holder, polls, alive, chan_locked, chan_opcode,
                    application_reset_n, burst_open, reclaimed, faults,
                    debug >>

NextLoop == FeedChunk

LoopSpec == InitLoop /\ [][NextLoop]_vars

\* The outputs of the decompressor, called again and again on what is left
\* of a chunk until nothing is left.
RECURSIVE Spans(_, _)
Spans(dec, chunk) ==
    IF chunk = <<>> THEN <<>>
    ELSE LET r == decompress(dec, chunk, DECOMPRESS_BUFFER_LEN)
         IN  <<r.out>> \o Spans(r.dec, r.rest)

NonEmpty(span) == span # <<>>
IsWrite(e) == e.k = "write"

(***************************************************************************)
(* C24.                                                                    *)
(***************************************************************************)
\* C24: a continue call of a compressed load writes the non-empty outputs
\* of the decompressor, called until the chunk is used up, in the order
\* they were produced, and no empty one; a chunk that gives no output is a
\* success with nothing written; the call fails only by a write failing,
\* which is then its last call.
C24_CompressedLoop ==
    pc = "looped" =>
       LET spans == SelectSeq(Spans(DecompressorDefault, last.val), NonEmpty)
           writes == SelectSeq(last.ev, IsWrite)
           n == Len(writes)
       IN  /\ Len(last.ev) = n
           /\ n <= Len(spans)
           /\ \A k \in 1..n : writes[k].d = spans[k] /\ writes[k].a > 0
           /\ \A k \in 1..(n - 1) : writes[k].ok
           /\ IF last.f \in 1..Len(spans)
              THEN /\ n = last.f
                   /\ ~writes[n].ok
                   /\ last.res.tag = "ImplError"
              ELSE /\ n = Len(spans)
                   /\ \A k \in 1..n : writes[k].ok
                   /\ last.res = Ok

\* The loop went round twice, both outputs written; and a chunk that ends
\* in the middle of a run was taken.
C24_Witness ==
    /\ pc = "looped"
    /\ last.res = Ok
    /\ Len(last.ev) = 2
    /\ bitstream_loader.dec.mode = "RunByte"

(***************************************************************************)
(* C25.                                                                    *)
(***************************************************************************)
\* C25: start leaves the loader's byte count at 0, and a continue that
\* succeeds adds to it the number of bytes it wrote to the channel: the
\* length of the chunk for an uncompressed load, the length of what the
\* decompressor gave, not of the chunk, for a compressed one.
C25_ByteCount ==
    [][/\ RequestOf("start_bitstream_load") => bitstream_loader'.len = 0
       /\ (RequestOf("continue_bitstream_load") /\ last'.res = Ok)
            => /\ bitstream_loader'.len
                    = bitstream_loader.len + Len(Written(last'.ev))
               /\ bitstream_loader.kind = "Uncompressed"
                    => Written(last'.ev) = last'.val
               /\ bitstream_loader.kind = "Compressed"
                    => Written(last'.ev)
                         = decompress(bitstream_loader.dec, last'.val,
                                      DECOMPRESS_BUFFER_LEN).out]_vars

\* A compressed load has counted the two bytes of a run that came in as one
\* byte of input.
C25_Witness ==
    /\ last.op = "continue_bitstream_load"
    /\ last.res = Ok
    /\ bitstream_loader.kind = "Compressed"
    /\ Len(last.val) = 1
    /\ bitstream_loader.len = 2

(***************************************************************************)
(* C26.                                                                    *)
(***************************************************************************)
\* C26: whenever continue-bitstream-load writes bitstream bytes, the
\* channel's lock is held and the burst opcode is the last opcode the
\* channel got, whatever happened before: a start that failed, a finish
\* that failed or was rejected.
C26_WritesInsideBurst ==
    [][(RequestOf("continue_bitstream_load") /\ Written(last'.ev) # <<>>)
         => (chan_locked /\ chan_opcode = BitstreamBurst)]_vars

(***************************************************************************)
(* send_command and read on an idle channel, for every opcode, with the    *)
(* call that fails, if one does, chosen: f is its place among the calls.   *)
(***************************************************************************)
Commands ==
    {Noop, ReadId, ReadStatus, EnableConfigurationMode,
     DisableConfigurationMode, BitstreamBurst}

Answers == IdReads \cup StartReads \cup ClimbOutReads

InitProtocol ==
    \/ \E c \in Commands : \E f \in 0..Len(send_command(c).calls) :
          Bench("call", [op |-> "send_command", c |-> c, d |-> <<>>, f |-> f,
                         ev |-> <<>>, res |-> Pending])
    \/ \E c \in Commands, d \in Answers : \E f \in 0..Len(read(c, d).calls) :
          Bench("call", [op |-> "read", c |-> c, d |-> d, f |-> f,
                         ev |-> <<>>, res |-> Pending])

\* The calls ev were made: the channel after them.
ProtocolDone(w) ==
    /\ last' = [last EXCEPT !.ev = w.ev, !.res = w.res]
    /\ chan_locked' = LockedAfter(w.ev, chan_locked)
    /\ chan_opcode' = OpcodeAfter(w.ev, chan_opcode)
    /\ pc' = "called"
    /\ UNCHANGED << lock_holder, bitstream_loader, polls, alive,
                    application_reset_n, burst_open, reclaimed, faults,
                    debug >>

SendCommand ==
    /\ pc = "call"
    /\ last.op = "send_command"
    /\ \E code \in ImplCodes :
          ProtocolDone(Run(send_command(last.c), last.f, code))

Read ==
    /\ pc = "call"
    /\ last.op = "read"
    /\ \E code \in ImplCodes :
          ProtocolDone(Run(read(last.c, last.d), last.f, code))

NextProtocol == SendCommand \/ Read

ProtocolSpec == InitProtocol /\ [][NextProtocol]_vars

(***************************************************************************)
(* C27.                                                                    *)
(***************************************************************************)
\* C27: send_command is the channel's lock, the opcode written, the
\* release, and nothing else; read is the lock, the opcode, the read of the
\* bytes, the release.  When none of the calls fails the result is success
\* and the channel is left unlocked; when the lock fails nothing is written
\* to the channel and nothing read from it.
C27_CommandProtocol ==
    pc = "called" =>
       /\ (last.f = 0 /\ last.op = "send_command")
            => last.ev = <<impl_lock, impl_write_command(last.c),
                           impl_release>>
       /\ (last.f = 0 /\ last.op = "read")
            => last.ev = <<impl_lock, impl_write_command(last.c),
                           impl_read(last.d), impl_release>>
       /\ last.f = 0 => (last.res = Ok /\ ~chan_locked /\ chan_opcode = last.c)
       /\ last.f = 1
            => /\ last.ev = <<[impl_lock EXCEPT !.ok = FALSE]>>
               /\ last.res.tag = "ImplError"
               /\ chan_opcode = Noop
               /\ ~chan_locked

\* The lock of a read failed.
C27_Witness ==
    /\ pc = "called"
    /\ last.op = "read"
    /\ last.f = 1
    /\ last.res.tag = "ImplError"

(***************************************************************************)
(* C28.                                                                    *)
(***************************************************************************)
\* C28: lock, release and the clearing of a terminated holder make no call
\* on the device and leave the channel's lock, its last opcode, the reset
\* pin and the loader as they were; start, continue and finish, every step
\* of finish's waits included, leave the recorded holder as it was.
C28_LocksIndependent ==
    [][/\ (\/ RequestOf("lock")
           \/ RequestOf("release")
           \/ ClosedRecvFail)
            => /\ last'.ev = <<>>
               /\ UNCHANGED << chan_locked, chan_opcode, application_reset_n,
                               bitstream_loader >>
       /\ (\/ RequestOf("start_bitstream_load")
           \/ RequestOf("continue_bitstream_load")
           \/ RequestOf("finish_bitstream_load")
           \/ pc \in FinishWaits)
            => lock_holder' = lock_holder]_vars

\* The holder terminated in the middle of its load and was cleared: the
\* channel is still locked, the loader still in progress.
C28_Witness ==
    /\ last.op = "closed_recv_fail"
    /\ lock_holder = NoTask
    /\ chan_locked
    /\ chan_opcode = BitstreamBurst
    /\ InProgress(bitstream_loader)

(***************************************************************************)
(* A task with an Fpga and an FpgaApplication for the same server, as the  *)
(* MainboardController of drv/sidecar-mainboard-controller-api has them:   *)
(* besides the Bitstream of a load it can hold the guard that              *)
(* FpgaApplication::lock returns.                                          *)
(***************************************************************************)
\* FpgaApplication::lock: lock is sent, the guard is built on success.
ApplicationLock ==
    /\ debug.pc = "recv"
    /\ debug.application_lock = "None"
    /\ Lock(DebugTask)
    /\ debug' = IF last'.res = Ok
                THEN [debug EXCEPT !.application_lock = "Some"]
                ELSE debug

\* The guard is dropped: FpgaLock::drop sends release.
ApplicationLockDrop ==
    /\ debug.pc = "recv"
    /\ debug.application_lock = "Some"
    /\ Release(DebugTask)
    /\ debug' = IF last'.res = Panic THEN debug
                ELSE [debug EXCEPT !.application_lock = "None"]

NextGuard == NextDebug \/ ApplicationLock \/ ApplicationLockDrop

GuardSpec == InitDebug /\ [][NextGuard]_vars

(***************************************************************************)
(* C29.                                                                    *)
(***************************************************************************)
\* C29: while the task is running and owns a guard, the Bitstream of a load
\* or the guard of FpgaApplication::lock, the server has it recorded as the
\* holder of the session lock.
C29_GuardKeepsLock ==
    (/\ DebugTask \in alive
     /\ debug.pc = "recv"
     /\ (debug.bitstream = "Some" \/ debug.application_lock = "Some"))
       => lock_holder = DebugTask

(***************************************************************************)
(* The enable pins.  Ecp5 drives PROGRAM_N and the application reset       *)
(* through Ecp5Impl and reads them back through it.  The pins are taken    *)
(* as outputs that read back the level last driven: application_reset_n    *)
(* holds the one, last.program_n the other.  last.asked keeps, per pin,    *)
(* the argument of the last set_*_enabled call that succeeded.             *)
(***************************************************************************)
DEVICE_RESET_DURATION == 25

impl_application_reset_n(v) == Ev("application_reset_n", B2N(v), <<>>)

device_enabled(v) == Call(impl_program_n(v))
device_enabled_of(v) == v

application_enabled(v) == Call(impl_application_reset_n(v))
application_enabled_of(v) == ~v

\* reset_device that does not wait between the two pin writes.
reset_device_at_once(ticks) ==
    Then(set_device_enabled(FALSE), set_device_enabled(TRUE))

reset_device(ticks) ==
    Then(set_device_enabled(FALSE),
    Then(Call(sleep_for(ticks)),
         set_device_enabled(TRUE)))

reset_application(ticks) ==
    Then(set_application_enabled(FALSE),
    Then(Call(sleep_for(ticks)),
         set_application_enabled(TRUE)))

\* The level of PROGRAM_N after the calls ev.
RECURSIVE ProgramNAfter(_, _)
ProgramNAfter(ev, before) ==
    IF ev = <<>> THEN before
    ELSE LET e == ev[Len(ev)]
         IN  IF e.ok /\ e.k = "set_program_n" THEN e.a = 1
             ELSE ProgramNAfter(SubSeq(ev, 1, Len(ev) - 1), before)

\* What the last successful call k of ev was given; before, if there is none.
Asked(ev, k, before) ==
    LET done == {i \in 1..Len(ev) : ev[i].k = k /\ ev[i].ok}
    IN  IF done = {} THEN before
        ELSE LET n == CHOOSE i \in done : \A j \in done : j <= i
             IN  <<ev[n].a = 1>>

\* The calls of p that can fail; 0 stands for none failing.
MayFail(p) == {0} \cup {i \in 1..Len(p.calls) : p.calls[i].k # "sleep"}

InitPins ==
    \E p \in BOOLEAN :
        Bench("pins", [op |-> "boot", enabled |-> FALSE, ev |-> <<>>,
                       res |-> Pending, val |-> FALSE, program_n |-> p,
                       asked |-> [application |-> <<>>, device |-> <<>>]])

PinsHandled(op, enabled, w, val) ==
    /\ last' = [op |-> op, enabled |-> enabled, ev |-> w.ev, res |-> w.res,
                val |-> IF w.res = Ok THEN val ELSE FALSE,
                program_n |-> ProgramNAfter(w.ev, last.program_n),
                asked |-> [application |->
                               Asked(w.ev, "set_application_reset_n",
                                     last.asked.application),
                           device |->
                               Asked(w.ev, "set_program_n",
                                     last.asked.device)]]
    /\ application_reset_n' = ApplicationResetAfter(w.ev, application_reset_n)
    /\ UNCHANGED << lock_holder, bitstream_loader, pc, polls, alive,
                    chan_locked, chan_opcode, burst_open, reclaimed, faults,
                    debug >>

PinsDeviceEnabled ==
    /\ pc = "pins"
    /\ \E f \in MayFail(device_enabled(last.program_n)), code \in ImplCodes :
          PinsHandled("device_enabled", FALSE,
                      Run(device_enabled(last.program_n), f, code),
                      device_enabled_of(last.program_n))

PinsSetDeviceEnabled(enabled) ==
    /\ pc = "pins"
    /\ \E f \in MayFail(set_device_enabled(enabled)), code \in ImplCodes :
          PinsHandled("set_device_enabled", enabled,
                      Run(set_device_enabled(enabled), f, code), FALSE)

PinsResetDevice ==
    /\ pc = "pins"
    /\ \E f \in MayFail(reset_device(DEVICE_RESET_DURATION)),
          code \in ImplCodes :
          PinsHandled("reset_device", FALSE,
                      Run(reset_device(DEVICE_RESET_DURATION), f, code),
                      FALSE)

PinsApplicationEnabled ==
    /\ pc = "pins"
    /\ \E f \in MayFail(application_enabled(application_reset_n)),
          code \in ImplCodes :
          PinsHandled("application_enabled", FALSE,
                      Run(application_enabled(application_reset_n), f, code),
                      application_enabled_of(application_reset_n))

PinsSetApplicationEnabled(enabled) ==
    /\ pc = "pins"
    /\ \E f \in MayFail(set_application_enabled(enabled)),
          code \in ImplCodes :
          PinsHandled("set_application_enabled", enabled,
                      Run(set_application_enabled(enabled), f, code), FALSE)

PinsResetApplication ==
    /\ pc = "pins"
    /\ \E f \in MayFail(reset_application(APPLICATION_RESET_DURATION)),
          code \in ImplCodes :
          PinsHandled("reset_application", FALSE,
                      Run(reset_application(APPLICATION_RESET_DURATION),
                          f, code),
                      FALSE)

NextPins ==
    \/ PinsDeviceEnabled
    \/ \E enabled \in BOOLEAN : PinsSetDeviceEnabled(enabled)
    \/ PinsResetDevice
    \/ PinsApplicationEnabled
    \/ \E enabled \in BOOLEAN : PinsSetApplicationEnabled(enabled)
    \/ PinsResetApplication

PinSpec == InitPins /\ [][NextPins]_vars

(***************************************************************************)
(* C30.                                                                    *)
(***************************************************************************)
\* C30: with pins that read back the level last driven, a successful
\* application_enabled returns what the last successful
\* set_application_enabled was given, and a successful device_enabled what
\* the last successful set_device_enabled was given.
C30_EnabledReadsBack ==
    /\ (/\ last.op = "application_enabled"
        /\ last.res = Ok
        /\ last.asked.application # <<>>)
          => last.val = last.asked.application[1]
    /\ (/\ last.op = "device_enabled"
        /\ last.res = Ok
        /\ last.asked.device # <<>>)
          => last.val = last.asked.device[1]

(***************************************************************************)
(* Status words on the bench: a word is put together from the fields the   *)
(* driver looks at, with every other bit clear or every other bit set, and *)
(* then decoded.                                                           *)
(***************************************************************************)
OtherBits == {[hi |-> 0, lo |-> 0], [hi |-> 64639, lo |-> 60159]}

StatusWord(e, d, w, b, o) ==
    [hi |-> o.hi + e * 128, lo |-> o.lo + d * 256 + w * 1024 + b * 4096]

InitStatus ==
    \E e \in 0..7, d \in 0..1, w \in 0..1, b \in 0..1, o \in OtherBits :
        Bench("word", [op |-> "status", e |-> e, d |-> d, w |-> w, b |-> b,
                       word |-> StatusWord(e, d, w, b, o),
                       done |-> FALSE, write_enabled |-> FALSE,
                       busy |-> FALSE, error |-> 0])

DecodeStatus ==
    /\ pc = "word"
    /\ pc' = "decoded"
    /\ last' = [last EXCEPT !.done = StatusDone(last.word),
                            !.write_enabled = StatusWriteEnabled(last.word),
                            !.busy = StatusBusy(last.word),
                            !.error = bitstream_error(last.word)]
    /\ BenchKept

StatusSpec == InitStatus /\ [][DecodeStatus]_vars

(***************************************************************************)
(* C31.                                                                    *)
(***************************************************************************)
\* C31: a status word decodes to its fields whatever its other bits are:
\* done is bit 8, write_enabled bit 10, busy bit 12, and bitstream_error is
\* the error whose code is bits 23 to 25, None (0) exactly when these bits
\* are all clear.
C31_StatusDecode ==
    (pc = "decoded" /\ last.op = "status") =>
        /\ last.done = (last.d = 1)
        /\ last.write_enabled = (last.w = 1)
        /\ last.busy = (last.b = 1)
        /\ last.error = last.e
        /\ (last.error = 0) = (last.word.hi \div 128 % 8 = 0)

C31_Witness ==
    /\ pc = "decoded"
    /\ last.op = "status"
    /\ last.word = [hi |-> 64639 + 384, lo |-> 60159 + 4096]
    /\ last.error = 3
    /\ last.busy
    /\ ~last.done

(***************************************************************************)
(* The older ECP5 task server (task/fpga).  Its state is kept in "last":   *)
(* decompressor (<<>> for None, <<d>> for Some(d)) and client, the         *)
(* generation recorded for the one subscriber; gen is the generation the   *)
(* subscriber's task really has, and kind, history, the type the last      *)
(* init_bitstream_load was given ("None" once a load is finalized).  The   *)
(* driver's initiate and finalize are taken by their results.              *)
(***************************************************************************)
NumGenerations == 3
LEGACY_DECOMPRESS_BUFFER_LEN == 256

InvalidMode == [tag |-> "InvalidMode", code |-> 0]

LegacyChunks == {<<7>>, OneLiteral, ShortRun}

\* sys_post: 0 when the task id is current, else the dead code carrying the
\* generation the task has now.
sys_post(client, current) ==
    IF client = current THEN [hi |-> 0, lo |-> 0]
    ELSE [hi |-> 65535, lo |-> 65280 + current]

Post(client, rc) ==
    [k |-> "post", a |-> client, d |-> <<rc>>, ok |-> rc = [hi |-> 0, lo |-> 0]]

\* NotificationSubscriptions::notify: one post, whatever it returns.
notify(client, g1, g2) ==
    [client |-> client, ev |-> <<Post(client, sys_post(client, g1))>>]

\* The subscriber has generation g1 at the first post and g2 at a second.
notify_or_update_and_retry(client, g1, g2) ==
    LET rc == sys_post(client, g1)
    IN  IF rc.hi = 65535 /\ rc.lo \div 256 = 255
        THEN LET c2 == rc.lo % 256
             IN  [client |-> c2,
                  ev |-> <<Post(client, rc), Post(c2, sys_post(c2, g2))>>]
        ELSE [client |-> client, ev |-> <<Post(client, rc)>>]

\* continue_bitstream_load with a decompressor: every output is written;
\* the f-th write fails (0: none), n writes have been made.
RECURSIVE legacy_continue_compressed(_, _, _, _, _)
legacy_continue_compressed(dec, chunk, f, n, c) ==
    IF chunk = <<>> THEN [dec |-> dec, ev |-> <<>>, res |-> Ok]
    ELSE LET r == decompress(dec, chunk, LEGACY_DECOMPRESS_BUFFER_LEN)
             w == Run(continue_bitstream_load(r.out),
                      IF n + 1 = f THEN 1 ELSE 0, c)
         IN  IF w.res # Ok THEN [dec |-> r.dec, ev |-> w.ev, res |-> w.res]
             ELSE LET t == legacy_continue_compressed(r.dec, r.rest, f,
                                                      n + 1, c)
                  IN  [t EXCEPT !.ev = w.ev \o @]

InitLegacy ==
    Bench("legacy", [op |-> "boot", arg |-> <<>>, decompressor |-> <<>>,
                     kind |-> "None", client |-> 0, gen |-> 0,
                     ev |-> <<>>, res |-> Pending])

\* The subscriber's task is restarted.
SubscriberRestarts ==
    /\ pc = "legacy"
    /\ last' = [last EXCEPT !.op = "restart", !.arg = <<>>, !.ev = <<>>,
                            !.res = Pending,
                            !.gen = (@ + 1) % NumGenerations]
    /\ UNCHANGED pc
    /\ BenchKept

LegacyInitBitstreamLoad(bitstream_type, res) ==
    /\ pc = "legacy"
    /\ last' = [last EXCEPT
                   !.op = "init_bitstream_load",
                   !.arg = <<bitstream_type>>,
                   !.decompressor = IF bitstream_type = "Compressed"
                                    THEN <<DecompressorDefault>> ELSE @,
                   !.kind = bitstream_type,
                   !.ev = <<>>,
                   !.res = res]
    /\ UNCHANGED pc
    /\ BenchKept

LegacyContinueBitstreamLoad(chunk, f, code) ==
    /\ pc = "legacy"
    /\ LET r == IF last.decompressor # <<>>
                THEN legacy_continue_compressed(last.decompressor[1], chunk,
                                                f, 0, code)
                ELSE LET w == Run(continue_bitstream_load(chunk),
                                  IF f = 1 THEN 1 ELSE 0, code)
                     IN  [dec |-> DecompressorDefault, ev |-> w.ev,
                          res |-> w.res]
       IN  last' = [last EXCEPT
                       !.op = "continue_bitstream_load",
                       !.arg = chunk,
                       !.decompressor = IF @ # <<>> THEN <<r.dec>> ELSE @,
                       !.ev = r.ev,
                       !.res = r.res]
    /\ UNCHANGED pc
    /\ BenchKept

LegacyFinalizeBitstreamLoad(res, g2) ==
    /\ pc = "legacy"
    /\ LET n == IF res = Ok
                THEN notify_or_update_and_retry(last.client, last.gen, g2)
                ELSE [client |-> last.client, ev |-> <<>>]
       IN  last' = [last EXCEPT
                       !.op = "finalize_bitstream_load",
                       !.arg = <<>>,
                       !.decompressor = <<>>,
                       !.kind = IF res = Ok THEN "None" ELSE @,
                       !.client = n.client,
                       !.gen = IF Len(n.ev) > 1 THEN g2 ELSE @,
                       !.ev = n.ev,
                       !.res = res]
    /\ UNCHANGED pc
    /\ BenchKept

NextLegacy ==
    \/ SubscriberRestarts
    \/ \E bitstream_type \in BitstreamTypes, res \in {Ok, InvalidMode} :
          LegacyInitBitstreamLoad(bitstream_type, res)
    \/ \E chunk \in LegacyChunks, f \in 0..MaxFailedWrite,
          code \in ImplCodes :
          LegacyContinueBitstreamLoad(chunk, f, code)
    \/ \E res \in {Ok, BitstreamErrorOf(3)},
          g2 \in {last.gen, (last.gen + 1) % NumGenerations} :
          LegacyFinalizeBitstreamLoad(res, g2)

LegacySpec == InitLegacy /\ [][NextLegacy]_vars

IsPost(e) == e.k = "post"

(***************************************************************************)
(* C32.                                                                    *)
(***************************************************************************)
\* C32: finalize_bitstream_load of the older server posts nothing when the
\* driver's finalize failed.  When it succeeded it posts once to the
\* recorded subscriber; if that post reports the task id stale, the
\* generation reported is recorded and one more post goes to the new id,
\* whatever that one reports; otherwise the record is left alone and there
\* is no second post.
C32_NotifyOnce ==
    [][(pc = "legacy" /\ last'.op = "finalize_bitstream_load") =>
          LET posts == SelectSeq(last'.ev, IsPost)
          IN  IF last'.res # Ok
              THEN posts = <<>> /\ last'.client = last.client
              ELSE /\ Len(posts) \in 1..2
                   /\ posts[1].a = last.client
                   /\ posts[1].ok =>
                         Len(posts) = 1 /\ last'.client = last.client
                   /\ ~posts[1].ok =>
                         /\ Len(posts) = 2
                         /\ last'.client = last.gen
                         /\ posts[2].a = last.gen]_vars

\* A second post that found the new id stale as well, with nothing after it.
C32_Witness ==
    /\ pc = "legacy"
    /\ last.op = "finalize_bitstream_load"
    /\ last.res = Ok
    /\ Len(last.ev) = 2
    /\ ~last.ev[1].ok
    /\ ~last.ev[2].ok
    /\ last.client # last.gen

(***************************************************************************)
(* C33.                                                                    *)
(***************************************************************************)
\* C33: in the older server a chunk given to continue_bitstream_load after
\* init_bitstream_load(Uncompressed) goes to the device as it is, in one
\* write, and a decompressor exists only while the load in progress was
\* initiated as Compressed.
C33_UncompressedForwarded ==
    (pc = "legacy" /\ last.kind = "Uncompressed") =>
        /\ last.decompressor = <<>>
        /\ (last.op = "continue_bitstream_load" /\ last.res = Ok) =>
              /\ Len(last.ev) = 1
              /\ Written(last.ev) = last.arg

(***************************************************************************)
(* Ecp5Error (drv/ecp5) and its numbers.                                   *)
(***************************************************************************)
Ecp5Errors ==
    {ImplError(c) : c \in 0..255} \cup {BitstreamErrorOf(c) : c \in 0..7}
      \cup {PortDisabled, InvalidMode}

\* From<Ecp5Error> for u16.
ecp5_u16_from(e) ==
    IF e.tag = "ImplError" THEN 256 + e.code            \* 0x100 | c
    ELSE IF e.tag = "BitstreamError" THEN 512 + e.code  \* 0x200 | code
    ELSE IF e.tag = "PortDisabled" THEN 768             \* 0x300
    ELSE IF e.tag = "InvalidMode" THEN 769              \* 0x301
    ELSE 770                                            \* 0x302 Notification

\* From<Ecp5Error> for u32: u16::from(e) as u32.
ecp5_u32_from(e) == [hi |-> 0, lo |-> ecp5_u16_from(e)]

\* TryFrom<u32> for Ecp5Error: the arms of match rc & 0xffffff00, in order.
ecp5_try_from_u32(rc) ==
    LET masked == [hi |-> rc.hi, lo |-> (rc.lo \div 256) * 256]
        low == rc.lo % 256
    IN  IF masked = [hi |-> 0, lo |-> 256] THEN ImplError(low)
        ELSE IF masked = [hi |-> 0, lo |-> 512]
        THEN IF low \in 0..7 THEN BitstreamErrorOf(low)
             ELSE [tag |-> "Err", code |-> 0]
        ELSE IF masked = [hi |-> 0, lo |-> 768] THEN PortDisabled
        ELSE IF masked = [hi |-> 0, lo |-> 769] THEN InvalidMode
        ELSE IF masked = [hi |-> 0, lo |-> 770]
        THEN [tag |-> "Notification", code |-> 0]
        ELSE [tag |-> "Err", code |-> 0]

InitEcp5Codec ==
    \E e \in Ecp5Errors :
        Bench("reply", [op |-> "ecp5_codec", sent |-> e,
                        wire |-> [hi |-> 0, lo |-> 0], got |-> Pending])

Ecp5Encode ==
    /\ pc = "reply"
    /\ pc' = "wire"
    /\ last' = [last EXCEPT !.wire = ecp5_u32_from(last.sent)]
    /\ BenchKept

Ecp5Decode ==
    /\ pc = "wire"
    /\ pc' = "decoded"
    /\ last' = [last EXCEPT !.got = ecp5_try_from_u32(last.wire)]
    /\ BenchKept

Ecp5CodecSpec == InitEcp5Codec /\ [][Ecp5Encode \/ Ecp5Decode]_vars

(***************************************************************************)
(* C34.                                                                    *)
(***************************************************************************)
\* C34: every Ecp5Error, encoded and decoded again, comes back as itself,
\* and no other Ecp5Error has the same number.
C34_Ecp5RoundTrip ==
    (pc = "decoded" /\ last.op = "ecp5_codec") =>
        /\ last.got = last.sent
        /\ \A e \in Ecp5Errors :
              ecp5_u32_from(e) = last.wire => e = last.sent

(***************************************************************************)
(* device_id on the bench: the four bytes read are the known IDCODEs and   *)
(* values around them, and the call that fails, if one does, is chosen.    *)
(***************************************************************************)
IdWords == [hi : {0, 273, 8465, 16657, 33041, 65535},
            lo : {0, 4163, 8259, 12355, 65535}]

BeBytes(v) == <<v.hi \div 256, v.hi % 256, v.lo \div 256, v.lo % 256>>

InitId ==
    \E v \in IdWords : \E f \in 0..Len(device_id(BeBytes(v)).calls) :
        Bench("call", [op |-> "device_id", d |-> BeBytes(v), f |-> f,
                       ev |-> <<>>, res |-> Pending, val |-> <<>>])

ReadDeviceId ==
    /\ pc = "call"
    /\ last.op = "device_id"
    /\ \E code \in ImplCodes :
          LET w == Run(device_id(last.d), last.f, code)
          IN  /\ last' = [last EXCEPT !.ev = w.ev, !.res = w.res,
                                      !.val = IF w.res = Ok THEN last.d
                                              ELSE <<>>]
              /\ chan_locked' = LockedAfter(w.ev, chan_locked)
              /\ chan_opcode' = OpcodeAfter(w.ev, chan_opcode)
    /\ pc' = "called"
    /\ UNCHANGED << lock_holder, bitstream_loader, polls, alive,
                    application_reset_n, burst_open, reclaimed, faults,
                    debug >>

IdSpec == InitId /\ [][ReadDeviceId]_vars

(***************************************************************************)
(* C35.                                                                    *)
(***************************************************************************)
\* C35: device_id returns Ok, with the value read, only when that value is
\* the IDCODE of one of the ten ECP5 devices of enum Id; for any other value
\* read, 0 and 0xFFFFFFFF among them, it returns an error and no value.
C35_SupportedIdOnly ==
    (pc = "called" /\ last.op = "device_id") =>
        IF last.res = Ok
        THEN /\ last.val = last.d
             /\ U32FromBe(last.d) \in KnownIds \ {[hi |-> 0, lo |-> 0]}
        ELSE last.val = <<>>

(***************************************************************************)
(* C36.                                                                    *)
(***************************************************************************)
\* C36: reset_device writes the PROGRAM_N pin low, sleeps the reset
\* duration and writes the pin high, each once and in this order, and the
\* pin ends high; when the first write fails nothing follows it; when the
\* second fails the error is returned with the pin left low.
\* reset_application does the same on the application reset pin.
C36_ResetSequence ==
    LET set == IF last.op = "reset_device" THEN "set_program_n"
               ELSE "set_application_reset_n"
        ticks == IF last.op = "reset_device" THEN DEVICE_RESET_DURATION
                 ELSE APPLICATION_RESET_DURATION
        level == IF last.op = "reset_device" THEN last.program_n
                 ELSE application_reset_n
        ev == last.ev
    IN  (pc = "pins" /\ last.op \in {"reset_device", "reset_application"}) =>
           /\ Len(ev) \in {1, 3}
           /\ ev[1].k = set /\ ev[1].a = 0
           /\ Len(ev) = 1 <=> ~ev[1].ok
           /\ Len(ev) = 3 =>
                 /\ ev[2].k = "sleep" /\ ev[2].a = ticks
                 /\ ev[3].k = set /\ ev[3].a = 1
                 /\ last.res = Ok <=> ev[3].ok
                 /\ level = ev[3].ok
           /\ last.res = Ok => Len(ev) = 3

\* The second write of reset_device failed: an error, and the pin is low.
C36_Witness ==
    /\ pc = "pins"
    /\ last.op = "reset_device"
    /\ Len(last.ev) = 3
    /\ ~last.ev[3].ok
    /\ last.res # Ok
    /\ ~last.program_n

(***************************************************************************)
(* MainboardController::await_fpga_ready, as the sequencer server's main   *)
(* calls it.  Its calls are Fpga::state and Fpga::reset; "last" holds the  *)
(* log of the first MaxReadyPolls rounds of the loop and of the round that *)
(* returns.                                                                *)
(***************************************************************************)
MaxReadyPolls == 3
READY_SLEEP_TICKS == 25

DeviceStates ==
    {DS_Unknown, DS_Disabled, DS_AwaitingBitstream, DS_RunningApplication,
     DS_Error}

fpga_state(ds) == Ev("state", ds, <<>>)
fpga_reset == Ev("reset", 0, <<>>)

\* One round of await_fpga_ready that does not reset a running device.
await_fpga_ready_no_reset(ds, ticks) ==
    [p |-> Then(Call(fpga_state(ds)),
                IF ds = DS_AwaitingBitstream THEN Return(Ok)
                ELSE Call(sleep_for(ticks))),
     again |-> ds # DS_AwaitingBitstream]

\* One round of await_fpga_ready; TRUE in "again" when the loop goes on.
await_fpga_ready(ds, ticks) ==
    [p |-> Then(Call(fpga_state(ds)),
                IF ds = DS_AwaitingBitstream THEN Return(Ok)
                ELSE IF ds = DS_RunningApplication
                THEN Then(Call(fpga_reset), Call(sleep_for(ticks)))
                ELSE Call(sleep_for(ticks))),
     again |-> ds # DS_AwaitingBitstream]

InitReady ==
    Bench("await_fpga_ready",
          [op |-> "await_fpga_ready", rounds |-> 0, ev |-> <<>>,
           res |-> Pending])

AwaitFpgaReady(ds) ==
    /\ pc = "await_fpga_ready"
    /\ LET r == await_fpga_ready(ds, READY_SLEEP_TICKS)
       IN  \E f \in MayFail(r.p), code \in ImplCodes :
              LET w == Run(r.p, f, code)
              IN  IF w.res = Ok /\ r.again
                  THEN /\ pc' = pc
                       /\ last' = IF last.rounds < MaxReadyPolls
                                  THEN [last EXCEPT !.rounds = @ + 1,
                                                    !.ev = @ \o w.ev]
                                  ELSE last
                  ELSE /\ pc' = "ready"
                       /\ last' = [last EXCEPT !.ev = @ \o w.ev,
                                               !.res = w.res]
    /\ BenchKept

\* The device reports AwaitingBitstream and the read succeeds.
ReadyShows ==
    /\ AwaitFpgaReady(DS_AwaitingBitstream)
    /\ last'.res = Ok

NextReady == \E ds \in DeviceStates : AwaitFpgaReady(ds)

ReadySpec == InitReady /\ [][NextReady]_vars

ReadyFairSpec == ReadySpec /\ WF_vars(ReadyShows)

(***************************************************************************)
(* C37.                                                                    *)
(***************************************************************************)
\* C37: in every round await_fpga_ready reads the device state first.  It
\* returns Ok exactly in the round that read AwaitingBitstream, with nothing
\* after the read; a round that read RunningApplication resets the device,
\* then sleeps; a round that read any other state only sleeps; a state read
\* or a reset that fails ends the loop with its error, nothing following.
\* With a device that in the end reports AwaitingBitstream the loop ends.
C37_AwaitFpgaReady ==
    /\ (pc = "await_fpga_ready") ~> (pc = "ready")
    /\ [](LET ev == last.ev
              n == Len(ev)
          IN  (last.op = "await_fpga_ready") =>
                 /\ \A i \in 1..n :
                       /\ (i = 1 \/ ev[i - 1].k = "sleep") <=> ev[i].k = "state"
                       /\ ~ev[i].ok => i = n /\ last.res = ImplError(1)
                       /\ (ev[i].k = "state" /\ ev[i].ok) =>
                             IF ev[i].a = DS_AwaitingBitstream
                             THEN i = n /\ last.res = Ok
                             ELSE /\ i < n
                                  /\ ev[i + 1].k =
                                        IF ev[i].a = DS_RunningApplication
                                        THEN "reset" ELSE "sleep"
                       /\ (ev[i].k = "reset" /\ ev[i].ok) =>
                             i < n /\ ev[i + 1].k = "sleep"
                       /\ ev[i].k = "reset" =>
                             ev[i - 1].a = DS_RunningApplication
                       /\ ev[i].k = "sleep" => ev[i].a = READY_SLEEP_TICKS
                 /\ last.res = Ok =>
                       /\ pc = "ready"
                       /\ n > 0
                       /\ ev[n] = fpga_state(DS_AwaitingBitstream)
                 /\ pc = "ready" <=> last.res # Pending)

\* Ready after a round that reset a running device and one that only slept.
C37_Witness ==
    /\ pc = "ready"
    /\ last.op = "await_fpga_ready"
    /\ last.res = Ok
    /\ \E i \in 1..Len(last.ev) : last.ev[i].k = "reset"
    /\ \E i \in 1..Len(last.ev) :
          last.ev[i] = fpga_state(DS_Error) /\ last.ev[i + 1].k = "sleep"

(***************************************************************************)
(* The sequencer server (drv/sidecar-seq-server) and the Tofino sequencer  *)
(* it drives (tofino2::Sequencer).  A call on the sequencer is one event:  *)
(* "state", "error" and "vid" carry what the masked register read gave,    *)
(* "set_enable" the bit written, "ack_vid" nothing.                        *)
(***************************************************************************)
PS_A2 == 1                       \* PowerState::A2
PS_A0 == 2                       \* PowerState::A0
TS_A2 == 1                       \* tofino2::State::A2
VID_POLLS == 3                   \* for i in 1..4
VID_POLL_TICKS == 25             \* hl::sleep_for(i * 25)

SeqErr(t) == [tag |-> t, code |-> 0]

SeqStateReads == {0, 1, 2, 5}
SeqErrorReads == {0, 6, 8}
VidReads ==
    {[valid |-> FALSE, code |-> 0], [valid |-> TRUE, code |-> 15],
     [valid |-> TRUE, code |-> 8], [valid |-> TRUE, code |-> 3]}

\* Sequencer::state and Sequencer::error: the read, then the decoding.
sequencer_state(v) ==
    Then(Call(Ev("state", v, <<>>)),
         IF v \in 0..4 THEN Return(Ok) ELSE Return(InvalidValue))

sequencer_error(v) ==
    Then(Call(Ev("error", v, <<>>)),
         IF v \in 0..7 THEN Return(Ok) ELSE Return(InvalidValue))

\* Sequencer::vid: None without the valid bit, else one of eight codes.
sequencer_vid(v) ==
    Then(Call(Ev("vid", v.code, <<B2N(v.valid)>>)),
         IF v.valid /\ v.code \notin 8..15 THEN Return(InvalidValue)
         ELSE Return(Ok))

sequencer_set_enable(enabled) == Call(Ev("set_enable", B2N(enabled), <<>>))
sequencer_ack_vid == Call(Ev("ack_vid", 0, <<>>))

\* apply_vid: set_vout builds the regulator's handle and logs the voltage;
\* its write to the regulator is commented out, so no call is made.
apply_vid(code) == Return(Ok)

\* power_up_tofino from its i-th poll on.
RECURSIVE power_up_poll(_, _)
power_up_poll(vids, i) ==
    IF i > VID_POLLS THEN Return(SeqErr("SequencerTimeout"))
    ELSE Then(Call(sleep_for(i * VID_POLL_TICKS)),
         Then(sequencer_vid(vids[i]),
              IF vids[i].valid
              THEN Then(apply_vid(vids[i].code), sequencer_ack_vid)
              ELSE power_up_poll(vids, i + 1)))

power_up_tofino(vids) ==
    Then(sequencer_set_enable(TRUE), power_up_poll(vids, 1))

power_down_tofino == sequencer_set_enable(FALSE)

\* set_tofino_state that looks at the transition before the error register.
set_tofino_state_error_last(s, e, d, vids) ==
    Then(sequencer_state(s),
    Then(sequencer_error(e),
         IF s = TS_A2 /\ d = PS_A0 THEN power_up_tofino(vids)
         ELSE IF d = PS_A2 THEN power_down_tofino
         ELSE IF e # 0 THEN Return(SeqErr("SequencerError"))
         ELSE Return(SeqErr("IllegalTransition"))))

set_tofino_state(s, e, d, vids) ==
    Then(sequencer_state(s),
    Then(sequencer_error(e),
         IF e # 0 THEN Return(SeqErr("SequencerError"))
         ELSE IF s = TS_A2 /\ d = PS_A0 THEN power_up_tofino(vids)
         ELSE IF d = PS_A2 THEN power_down_tofino
         ELSE Return(SeqErr("IllegalTransition"))))

\* The SeqError of a run: map_err and From<FpgaError> at the call that
\* failed, or at the decoding that gave InvalidValue.
seq_error_of(w) ==
    LET n == Len(w.ev)
        k == w.ev[n].k
    IN  IF w.res = Ok \/ w.res.tag \notin {"ImplError", "InvalidValue"}
        THEN w.res
        ELSE IF k \in {"state", "error"} \/ (k = "set_enable" /\ w.ev[n].a = 0)
        THEN SeqErr("SequencerError")
        ELSE IF k = "vid" /\ w.res = InvalidValue
        THEN SeqErr("InvalidTofinoVid")
        ELSE SeqErr("FpgaError")

InitSeq ==
    \E s \in SeqStateReads, e \in SeqErrorReads, d \in {PS_A2, PS_A0},
       vids \in [1..VID_POLLS -> VidReads] :
       \E f \in MayFail(set_tofino_state(s, e, d, vids)) :
          Bench("set_tofino_state",
                [op |-> "set_tofino_state", s |-> s, e |-> e, d |-> d,
                 vids |-> vids, f |-> f, ev |-> <<>>, res |-> Pending])

SetTofinoState ==
    /\ pc = "set_tofino_state"
    /\ \E code \in ImplCodes :
          LET w == Run(set_tofino_state(last.s, last.e, last.d, last.vids),
                       last.f, code)
          IN  last' = [last EXCEPT !.ev = w.ev, !.res = seq_error_of(w)]
    /\ pc' = "replied"
    /\ BenchKept

SeqSpec == InitSeq /\ [][SetTofinoState]_vars

IsSeqWrite(e) == e.k \in {"set_enable", "ack_vid"}

(***************************************************************************)
(* C38.                                                                    *)
(***************************************************************************)
\* C38: set_tofino_state reads the sequencer's state and its error register
\* and writes nothing before.  With an error other than None it returns
\* SequencerError and nothing is written.  With no error: state A2 and
\* desired A0 start the power-up, the enable bit being set; desired A2, in
\* any state, starts the power-down, the enable bit being cleared; every
\* other pair returns IllegalTransition and nothing is written.
C38_SetTofinoState ==
    LET ev == last.ev
        got == /\ Len(ev) >= 2
                /\ ev[1].ok /\ ev[2].ok
                /\ last.s \in 0..4 /\ last.e \in 0..7
        writes == SelectSeq(ev, IsSeqWrite)
    IN  (pc = "replied" /\ last.op = "set_tofino_state") =>
           /\ ev[1].k = "state"
           /\ (Len(ev) >= 2) => ev[2].k = "error"
           /\ ~got => writes = <<>> /\ last.res = SeqErr("SequencerError")
           /\ (got /\ last.e # 0) =>
                 writes = <<>> /\ last.res = SeqErr("SequencerError")
           /\ (got /\ last.e = 0) =>
                 IF last.s = TS_A2 /\ last.d = PS_A0
                 THEN ev[3].k = "set_enable" /\ ev[3].a = 1
                 ELSE IF last.d = PS_A2
                 THEN /\ Len(ev) = 3
                      /\ ev[3].k = "set_enable" /\ ev[3].a = 0
                      /\ last.res = IF ev[3].ok THEN Ok
                                    ELSE SeqErr("SequencerError")
                 ELSE writes = <<>> /\ last.res = SeqErr("IllegalTransition")

\* Power-down asked for from state A0 with a sequencer error pending:
\* refused, nothing written.
C38_Witness ==
    /\ pc = "replied"
    /\ last.op = "set_tofino_state"
    /\ last.s = 2
    /\ last.e = 6
    /\ last.d = PS_A2
    /\ Len(last.ev) = 2
    /\ last.ev[2].ok
    /\ last.res = SeqErr("SequencerError")


(***************************************************************************)
(* C39.                                                                    *)
(***************************************************************************)
\* The calls of a power-up after its set_enable(true) went through.
PowerUpCalls == SubSeq(last.ev, 4, Len(last.ev))

PoweredUp ==
    /\ pc = "replied"
    /\ last.op = "set_tofino_state"
    /\ Len(last.ev) >= 3
    /\ \A i \in 1..3 : last.ev[i].ok
    /\ last.ev[3].k = "set_enable"
    /\ last.ev[3].a = 1

ValidVid(e) == e.k = "vid" /\ e.ok /\ e.d = <<1>> /\ e.a \in 8..15

\* The order of a power-up: the i-th poll follows a sleep of 25 * i ticks,
\* there are at most three, the acknowledge comes straight after the first
\* valid VID and ends the call, a VID outside the encoding gives
\* InvalidTofinoVid and three polls without a VID give SequencerTimeout.
PowerUpOrder ==
    LET c == PowerUpCalls
        n == Len(c)
    IN  PoweredUp =>
           /\ n \in 2..(2 * VID_POLLS + 1)
           /\ \A i \in 1..n :
                 /\ (i % 2 = 1 /\ c[i].k # "ack_vid") =>
                       /\ c[i].k = "sleep"
                       /\ c[i].a = ((i + 1) \div 2) * VID_POLL_TICKS
                 /\ (i % 2 = 0) => c[i].k = "vid"
                 /\ (c[i].k = "ack_vid") => (i = n /\ ValidVid(c[i - 1]))
                 /\ (ValidVid(c[i]) /\ i < n) => i + 1 = n
                 /\ ValidVid(c[i]) => i < n
           /\ (c[n].k = "ack_vid") =>
                 last.res = IF c[n].ok THEN Ok ELSE SeqErr("FpgaError")
           /\ (c[n].k = "vid" /\ ~c[n].ok) => last.res = SeqErr("FpgaError")
           /\ (c[n].k = "vid" /\ c[n].ok /\ c[n].d = <<1>>) =>
                 last.res = SeqErr("InvalidTofinoVid")
           /\ (c[n].k = "vid" /\ c[n].ok /\ c[n].d = <<0>>) =>
                 n = 2 * VID_POLLS /\ last.res = SeqErr("SequencerTimeout")

\* C39: a power-up sets the enable bit, then polls the VID at most three
\* times, after sleeps of 25, 50 and 75 ticks; at the first valid VID the
\* voltage is applied to the regulator, then the VID is acknowledged and the
\* call returns Ok without another poll; no acknowledge is written before
\* the voltage of a valid VID was applied; a VID outside the encoding gives
\* InvalidTofinoVid and three polls without a VID give SequencerTimeout.
C39_PowerUpAppliesVid ==
    /\ PowerUpOrder
    /\ PoweredUp =>
          \A i \in 1..Len(PowerUpCalls) :
             (PowerUpCalls[i].k = "ack_vid") =>
                \E j \in 1..(i - 1) : PowerUpCalls[j].k = "set_vout"

====
